---- MODULE Spec2Model ----
(***************************************************************************)
(* A model of the golisp reader/evaluator (src/unnamed/part_002, lines     *)
(* 1-700): the byte-at-a-time lexer, the recursive-descent parser that     *)
(* pulls tokens from it, the tree-walking evaluator and the host loop of   *)
(* TestEval.                                                               *)
(*                                                                         *)
(* Bytes are their ASCII codes, strings are sequences of bytes.  A Go      *)
(* struct is a record with the struct's fields; a Go enum value is the     *)
(* string of its name.  A *Value is either Nil or the Value pointed to:    *)
(* the parser and the evaluator only ever build fresh nodes and never      *)
(* write through a pointer they did not just create, so trees are values.  *)
(***************************************************************************)
EXTENDS Integers, Sequences, FiniteSets, TLC

(***************************************************************************)
(* Bytes the code names.                                                   *)
(***************************************************************************)
ByteTab == 9
ByteLF == 10
ByteCR == 13
ByteSpace == 32
ByteBang == 33
ByteDQuote == 34
ByteHash == 35
ByteDollar == 36
BytePercent == 37
ByteAmp == 38
ByteQuote == 39
ByteLparen == 40
ByteRparen == 41
ByteStar == 42
BytePlus == 43
ByteMinus == 45
ByteDot == 46
ByteSlash == 47
ByteZero == 48
ByteNine == 57
ByteColon == 58
ByteSemicolon == 59
ByteLess == 60
ByteEquals == 61
ByteGreater == 62
ByteQuestion == 63
ByteUpperA == 65
ByteUpperZ == 90
ByteBackslash == 92
ByteCaret == 94
ByteBacktick == 96
ByteLowerA == 97
ByteLowerZ == 122
ByteTilde == 126

\* A byte no lexer state accepts (a raw control byte).
ByteCtl == 1

\* Every value of Go's byte type.
AllBytes == 0..255

(***************************************************************************)
(* Tokens and the lexer's record.                                          *)
(***************************************************************************)
TokenTypes ==
    {"TokInvalid", "TokNumber", "TokIdentifier", "TokString",
     "TokLparen", "TokRparen", "TokDot", "TokQuote"}

LexStates ==
    {"LexIdle", "LexNumber", "LexIdentifier", "LexComment",
     "LexString", "LexStringEscaped"}

\* Token{offset, length, type}
Token(offset, length, type) ==
    [Offset |-> offset, Length |-> length, Type |-> type]

\* Token{0, 0, TokInvalid}, also the zero value of Value.Token
TokenInvalid == Token(0, 0, "TokInvalid")

\* var lex Lex
NewLex == [Source |-> <<>>, Tokens |-> <<>>, state |-> "LexIdle"]

(***************************************************************************)
(* Errors.  Text keeps the format's arguments instead of the formatted     *)
(* string: the message, the byte, the type name, the token and the symbol  *)
(* a message is built from.                                                *)
(***************************************************************************)
ErrorText(msg, byte, type, token, symbol) ==
    [msg |-> msg, byte |-> byte, type |-> type, token |-> token, symbol |-> symbol]

NoText == ErrorText("", -1, "", TokenInvalid, <<>>)

\* err == nil
ErrNil == [kind |-> "nil", LineNumber |-> 0, OffsetInLine |-> 0, Text |-> NoText]

\* io.EOF, what input.Read returns at the end of the input
ErrEOF == [kind |-> "EOF", LineNumber |-> 0, OffsetInLine |-> 0, Text |-> NoText]

\* One iteration of NewError's loop for the code point c.  prev is declared and
\* read but the loop never assigns it, so it keeps its zero value.
NewErrorStep(st, c) ==
    IF st.prev = ByteCR /\ c = ByteLF
    THEN [st EXCEPT !.offsetInLine = 0]
    ELSE IF c = ByteCR \/ c = ByteLF
         THEN [st EXCEPT !.line = st.line + 1, !.offsetInLine = 0]
         ELSE [st EXCEPT !.offsetInLine = st.offsetInLine + 1]

\* `for i, c := range source` reads a string as UTF-8: c is a code point and
\* i the index of its first byte.  A byte that begins no well-formed
\* encoding is read alone, as U+FFFD.
RuneError == 65533

IsContinuation(source, j) == j <= Len(source) /\ source[j] \in 128..191

\* the second byte of an encoding that begins with b: E0, ED, F0 and F4
\* narrow it (no overlong form, no surrogate, nothing above U+10FFFF)
IsSecondByte(source, j, b) ==
    /\ IsContinuation(source, j)
    /\ b = 224 => source[j] >= 160
    /\ b = 237 => source[j] <= 159
    /\ b = 240 => source[j] >= 144
    /\ b = 244 => source[j] <= 143

\* the number of bytes of the code point whose first byte is source[i]
RuneWidth(source, i) ==
    IF source[i] \in 194..223 /\ IsContinuation(source, i + 1)
    THEN 2
    ELSE IF /\ source[i] \in 224..239
            /\ IsSecondByte(source, i + 1, source[i])
            /\ IsContinuation(source, i + 2)
    THEN 3
    ELSE IF /\ source[i] \in 240..244
            /\ IsSecondByte(source, i + 1, source[i])
            /\ IsContinuation(source, i + 2)
            /\ IsContinuation(source, i + 3)
    THEN 4
    ELSE 1

\* the code point whose first byte is source[i]
RuneAt(source, i) ==
    IF source[i] < 128 THEN source[i]
    ELSE IF RuneWidth(source, i) = 2
    THEN (source[i] - 192) * 64 + (source[i + 1] - 128)
    ELSE IF RuneWidth(source, i) = 3
    THEN (source[i] - 224) * 4096 + (source[i + 1] - 128) * 64
         + (source[i + 2] - 128)
    ELSE IF RuneWidth(source, i) = 4
    THEN (source[i] - 240) * 262144 + (source[i + 1] - 128) * 4096
         + (source[i + 2] - 128) * 64 + (source[i + 3] - 128)
    ELSE RuneError

\* The loop from the code point at index i on (i counts from 1 here, the
\* code's i from 0): the break is tested where a code point begins only.
\* j is the index of the next code point and t the variables after this
\* iteration, each evaluated once.
RECURSIVE NewErrorLoop(_, _, _, _)
NewErrorLoop(source, offset, i, st) ==
    IF i > Len(source) \/ i - 1 = offset
    THEN st
    ELSE CHOOSE r \in
             {NewErrorLoop(source, offset, j, t) :
                  j \in {i + RuneWidth(source, i)},
                  t \in {NewErrorStep(st, RuneAt(source, i))}} : TRUE

\* NewError(source, offset, text)
\* The variables when the loop is left, for the values s and o of source and
\* offset.
NewErrorVars(source, offset) ==
    {NewErrorLoop(s, o, 1, [line |-> 1, offsetInLine |-> 0, prev |-> 0]) :
         s \in {source}, o \in {offset}}

NewError(source, offset, text) ==
    CHOOSE e \in {[kind |-> "Error", LineNumber |-> st.line,
                   OffsetInLine |-> st.offsetInLine + 1, Text |-> text] :
                      st \in NewErrorVars(source, offset)} : TRUE

(***************************************************************************)
(* Byte classes.                                                           *)
(***************************************************************************)
\* IsNumeric that takes the minus sign for a digit.
IsNumericSigned(c) == c = ByteMinus \/ (c >= ByteZero /\ c <= ByteNine)

IsNumeric(c) == c >= ByteZero /\ c <= ByteNine

IsAlphabetic(c) ==
    \/ (c >= ByteLowerA /\ c <= ByteLowerZ)
    \/ (c >= ByteUpperA /\ c <= ByteUpperZ)
    \/ c \in {ByteMinus, ByteBang, ByteDollar, BytePercent, ByteStar, BytePlus,
              ByteQuestion, ByteAmp, ByteDot, ByteBackslash, ByteSlash, ByteTilde,
              ByteBacktick, ByteColon, ByteEquals, ByteLess, ByteGreater,
              ByteCaret, ByteHash}

IsCommentCharacter(c) == c = ByteTab \/ (c >= ByteSpace /\ c <= ByteTilde)

IsPrintableCharacter(c) == c >= ByteSpace /\ c <= ByteTilde

IsStringCharacter(c) ==
    c = ByteTab \/ c = ByteLF \/ c = ByteCR \/ (c >= ByteSpace /\ c <= ByteTilde)

\* IsAlphaNumeric without the punctuation: digits and letters only.
IsAlphaNumericNoPunct(c) ==
    \/ IsNumeric(c)
    \/ (c >= ByteLowerA /\ c <= ByteLowerZ)
    \/ (c >= ByteUpperA /\ c <= ByteUpperZ)

IsAlphaNumeric(c) == IsNumeric(c) \/ IsAlphabetic(c) \/ c = ByteBang \/ c = ByteDollar

IsSingleCharToken(c) ==
    c = ByteLparen \/ c = ByteRparen \/ c = ByteDot \/ c = ByteQuote

\* c == ' ' || c == 0x0A || c == 0x0D || c == '\t'
IsWhitespace(c) == c = ByteSpace \/ c = ByteLF \/ c = ByteCR \/ c = ByteTab

TokenFromByte(c) ==
    CASE c = ByteLparen -> "TokLparen"
      [] c = ByteRparen -> "TokRparen"
      [] c = ByteDot -> "TokDot"
      [] c = ByteQuote -> "TokQuote"

(***************************************************************************)
(* The lexer.  An operation on *Lex returns the record after the call,     *)
(* the tokens it returns and its error: [lex, toks, err].                  *)
(***************************************************************************)
LexResult(lex, toks, err) == [lex |-> lex, toks |-> toks, err |-> err]

LastToken(lex) == lex.Tokens[Len(lex.Tokens)]

\* ExtendLastToken that counts the byte twice.
ExtendLastTokenTwice(lex) ==
    [lex EXCEPT !.Tokens[Len(lex.Tokens)].Length = @ + 2]

\* self.LastTokenMut().Length += 1
ExtendLastToken(lex) ==
    [lex EXCEPT !.Tokens[Len(lex.Tokens)].Length = @ + 1]

\* RetypeLastToken with the retyping left out: the token keeps its type.
RetypeLastTokenKept(lex, t) == lex

\* self.LastTokenMut().Type = t
RetypeLastToken(lex, t) ==
    [lex EXCEPT !.Tokens[Len(lex.Tokens)].Type = t]

\* NewUnexpectedByteError called after the byte was written to the source.
NewUnexpectedByteErrorAfterWrite(lex, c) ==
    NewError(Append(lex.Source, c), Len(lex.Source) + 1,
             ErrorText("unexpected byte", c,
                       IF IsPrintableCharacter(c) THEN "%c" ELSE "0x%X",
                       TokenInvalid, <<>>))

NewUnexpectedByteError(lex, c) ==
    NewError(lex.Source, Len(lex.Source),
             ErrorText("unexpected byte", c,
                       IF IsPrintableCharacter(c) THEN "%c" ELSE "0x%X",
                       TokenInvalid, <<>>))

\* AddToken that does not hand out the token in progress.
AddTokenNoFlush(lex, t) ==
    LET newToken == Token(Len(lex.Source), 1, t)
    IN  LexResult([lex EXCEPT !.state = "LexIdle",
                              !.Tokens = Append(lex.Tokens, newToken)],
                  <<newToken>>, ErrNil)

AddToken(lex, t) ==
    LET prior == IF lex.state # "LexIdle" THEN <<LastToken(lex)>> ELSE <<>>
        newToken == Token(Len(lex.Source), 1, t)
    IN  LexResult([lex EXCEPT !.state = "LexIdle",
                              !.Tokens = Append(lex.Tokens, newToken)],
                  prior \o <<newToken>>, ErrNil)

BeginNumber(lex) ==
    [lex EXCEPT !.Tokens = Append(lex.Tokens, Token(Len(lex.Source), 1, "TokNumber")),
                !.state = "LexNumber"]

BeginIdentifier(lex) ==
    [lex EXCEPT !.Tokens = Append(lex.Tokens, Token(Len(lex.Source), 1, "TokIdentifier")),
                !.state = "LexIdentifier"]

BeginString(lex) ==
    LET prior == IF lex.state # "LexIdle" THEN <<LastToken(lex)>> ELSE <<>>
    IN  LexResult([lex EXCEPT !.Tokens = Append(lex.Tokens,
                                                Token(Len(lex.Source), 1, "TokString")),
                              !.state = "LexString"],
                  prior, ErrNil)

\* case LexIdle
ConsumeIdle(lex, c) ==
    IF IsSingleCharToken(c) THEN AddToken(lex, TokenFromByte(c))
    ELSE IF IsWhitespace(c) THEN LexResult(lex, <<>>, ErrNil)
    ELSE IF IsNumeric(c) THEN LexResult(BeginNumber(lex), <<>>, ErrNil)
    ELSE IF IsAlphaNumeric(c) THEN LexResult(BeginIdentifier(lex), <<>>, ErrNil)
    ELSE IF c = ByteDQuote THEN BeginString(lex)
    ELSE IF c = ByteSemicolon
         THEN LexResult([lex EXCEPT !.state = "LexComment"], <<>>, ErrNil)
    ELSE LexResult(lex, <<>>, NewUnexpectedByteError(lex, c))

\* case LexNumber in which white space does not end the number.
ConsumeNumberKeepOpen(lex, c) ==
    IF IsSingleCharToken(c) THEN AddToken(lex, TokenFromByte(c))
    ELSE IF c = ByteDQuote THEN LexResult(BeginString(lex).lex, <<>>, ErrNil)
    ELSE IF IsWhitespace(c) THEN LexResult(lex, <<>>, ErrNil)
    ELSE IF IsNumeric(c) THEN LexResult(ExtendLastToken(lex), <<>>, ErrNil)
    ELSE IF IsAlphaNumeric(c)
         THEN LexResult(RetypeLastToken(ExtendLastToken(lex), "TokIdentifier"),
                        <<>>, ErrNil)
    ELSE IF c = ByteSemicolon
         THEN LexResult([lex EXCEPT !.state = "LexComment"], <<LastToken(lex)>>, ErrNil)
    ELSE LexResult([lex EXCEPT !.state = "LexIdle"], <<LastToken(lex)>>,
                   NewUnexpectedByteError(lex, c))

\* case LexNumber.  The tokens BeginString returns are dropped here: the call's
\* result is not used and the function falls through to `return []Token{}, nil`.
ConsumeNumber(lex, c) ==
    IF IsSingleCharToken(c) THEN AddToken(lex, TokenFromByte(c))
    ELSE IF c = ByteDQuote THEN LexResult(BeginString(lex).lex, <<>>, ErrNil)
    ELSE IF IsWhitespace(c)
         THEN LexResult([lex EXCEPT !.state = "LexIdle"], <<LastToken(lex)>>, ErrNil)
    ELSE IF IsNumeric(c) THEN LexResult(ExtendLastToken(lex), <<>>, ErrNil)
    ELSE IF IsAlphaNumeric(c)
         THEN LexResult(RetypeLastToken(ExtendLastToken(lex), "TokIdentifier"),
                        <<>>, ErrNil)
    ELSE IF c = ByteSemicolon
         THEN LexResult([lex EXCEPT !.state = "LexComment"], <<LastToken(lex)>>, ErrNil)
    ELSE LexResult([lex EXCEPT !.state = "LexIdle"], <<LastToken(lex)>>,
                   NewUnexpectedByteError(lex, c))

\* case LexIdentifier in which white space returns the Identifier and leaves
\* the state as it is.
ConsumeIdentifierStays(lex, c) ==
    IF IsSingleCharToken(c) THEN AddToken(lex, TokenFromByte(c))
    ELSE IF c = ByteDQuote THEN LexResult(BeginString(lex).lex, <<>>, ErrNil)
    ELSE IF IsWhitespace(c) THEN LexResult(lex, <<LastToken(lex)>>, ErrNil)
    ELSE IF IsAlphaNumeric(c) THEN LexResult(ExtendLastToken(lex), <<>>, ErrNil)
    ELSE IF c = ByteSemicolon
         THEN LexResult([lex EXCEPT !.state = "LexComment"], <<LastToken(lex)>>, ErrNil)
    ELSE LexResult([lex EXCEPT !.state = "LexIdle"], <<LastToken(lex)>>,
                   NewUnexpectedByteError(lex, c))

\* case LexIdentifier
ConsumeIdentifier(lex, c) ==
    IF IsSingleCharToken(c) THEN AddToken(lex, TokenFromByte(c))
    ELSE IF c = ByteDQuote THEN LexResult(BeginString(lex).lex, <<>>, ErrNil)
    ELSE IF IsWhitespace(c)
         THEN LexResult([lex EXCEPT !.state = "LexIdle"], <<LastToken(lex)>>, ErrNil)
    ELSE IF IsAlphaNumeric(c) THEN LexResult(ExtendLastToken(lex), <<>>, ErrNil)
    ELSE IF c = ByteSemicolon
         THEN LexResult([lex EXCEPT !.state = "LexComment"], <<LastToken(lex)>>, ErrNil)
    ELSE LexResult([lex EXCEPT !.state = "LexIdle"], <<LastToken(lex)>>,
                   NewUnexpectedByteError(lex, c))

\* case LexComment in which the one-byte tokens are still tokens.
ConsumeCommentTokens(lex, c) ==
    IF IsSingleCharToken(c) THEN AddTokenNoFlush(lex, TokenFromByte(c))
    ELSE IF c = ByteLF \/ c = ByteCR
    THEN LexResult([lex EXCEPT !.state = "LexIdle"], <<>>, ErrNil)
    ELSE IF IsCommentCharacter(c) THEN LexResult(lex, <<>>, ErrNil)
    ELSE LexResult([lex EXCEPT !.state = "LexIdle"], <<>>,
                   NewUnexpectedByteError(lex, c))

\* case LexComment
ConsumeComment(lex, c) ==
    IF c = ByteLF \/ c = ByteCR
    THEN LexResult([lex EXCEPT !.state = "LexIdle"], <<>>, ErrNil)
    ELSE IF IsCommentCharacter(c) THEN LexResult(lex, <<>>, ErrNil)
    ELSE LexResult([lex EXCEPT !.state = "LexIdle"], <<>>,
                   NewUnexpectedByteError(lex, c))

\* case LexStringEscaped in which the escape does not protect a double quote.
ConsumeStringEscapedQuoteCloses(lex, c) ==
    IF c = ByteDQuote
    THEN LexResult([ExtendLastToken(lex) EXCEPT !.state = "LexIdle"],
                   <<LastToken(ExtendLastToken(lex))>>, ErrNil)
    ELSE IF IsStringCharacter(c)
    THEN LexResult([ExtendLastToken(lex) EXCEPT !.state = "LexString"], <<>>, ErrNil)
    ELSE LexResult([lex EXCEPT !.state = "LexIdle"], <<LastToken(lex)>>,
                   NewUnexpectedByteError(lex, c))

\* case LexStringEscaped
ConsumeStringEscaped(lex, c) ==
    IF IsStringCharacter(c)
    THEN LexResult([ExtendLastToken(lex) EXCEPT !.state = "LexString"], <<>>, ErrNil)
    ELSE LexResult([lex EXCEPT !.state = "LexIdle"], <<LastToken(lex)>>,
                   NewUnexpectedByteError(lex, c))

\* case LexString whose error branch leaves the state as it is.
ConsumeStringStaysOnError(lex, c) ==
    IF c = ByteDQuote
    THEN LexResult([ExtendLastToken(lex) EXCEPT !.state = "LexIdle"],
                   <<LastToken(ExtendLastToken(lex))>>, ErrNil)
    ELSE IF c = ByteBackslash
         THEN LexResult([ExtendLastToken(lex) EXCEPT !.state = "LexStringEscaped"],
                        <<>>, ErrNil)
    ELSE IF IsStringCharacter(c) THEN LexResult(ExtendLastToken(lex), <<>>, ErrNil)
    ELSE LexResult(lex, <<LastToken(lex)>>, NewUnexpectedByteError(lex, c))

\* case LexString
ConsumeString(lex, c) ==
    IF c = ByteDQuote
    THEN LET closed == [ExtendLastToken(lex) EXCEPT !.state = "LexIdle"]
         IN  LexResult(closed, <<LastToken(closed)>>, ErrNil)
    ELSE IF c = ByteBackslash
         THEN LexResult([ExtendLastToken(lex) EXCEPT !.state = "LexStringEscaped"],
                        <<>>, ErrNil)
    ELSE IF IsStringCharacter(c) THEN LexResult(ExtendLastToken(lex), <<>>, ErrNil)
    ELSE LexResult([lex EXCEPT !.state = "LexIdle"], <<LastToken(lex)>>,
                   NewUnexpectedByteError(lex, c))

ConsumeImpl(lex, c) ==
    CASE lex.state = "LexIdle" -> ConsumeIdle(lex, c)
      [] lex.state = "LexNumber" -> ConsumeNumber(lex, c)
      [] lex.state = "LexIdentifier" -> ConsumeIdentifier(lex, c)
      [] lex.state = "LexComment" -> ConsumeComment(lex, c)
      [] lex.state = "LexStringEscaped" -> ConsumeStringEscaped(lex, c)
      [] lex.state = "LexString" -> ConsumeString(lex, c)

\* Consume that writes the byte only when ConsumeImpl returned no error.
ConsumeSkipOnError(lex, c) ==
    LET r == ConsumeImpl(lex, c)
    IN  LexResult(IF r.err = ErrNil
                  THEN [r.lex EXCEPT !.Source = Append(r.lex.Source, c)]
                  ELSE r.lex,
                  r.toks, r.err)

\* Consume: ConsumeImpl, then the byte is appended to the source.
Consume(lex, c) ==
    LET r == ConsumeImpl(lex, c)
    IN  LexResult([r.lex EXCEPT !.Source = Append(r.lex.Source, c)], r.toks, r.err)

(***************************************************************************)
(* Values.  Nil is the nil *Value.  Char is never set and is left out.     *)
(***************************************************************************)
ValueTypes ==
    {"ValNull", "ValBool", "ValPair", "ValSymbol", "ValNumber", "ValChar",
     "ValString", "ValProc"}

Nil == [Type |-> "nil"]

(***************************************************************************)
(* Go's int (the Number field and plusFn's acc): 64 bits, two's            *)
(* complement.  A value is kept as its four 16-bit limbs, least            *)
(* significant first, so that sums and products of limbs stay small and    *)
(* the carry out of the most significant limb is dropped as the machine    *)
(* drops it.                                                               *)
(***************************************************************************)
IntLimbs == 4
LimbBase == 65536

\* the int of value n, for n of at most 31 bits (\div rounds down, % is
\* never negative, so a negative n has its sign in every higher limb)
GoInt(n) ==
    <<n % LimbBase,
      (n \div LimbBase) % LimbBase,
      ((n \div LimbBase) \div LimbBase) % LimbBase,
      (((n \div LimbBase) \div LimbBase) \div LimbBase) % LimbBase>>

\* math.MaxInt64 and math.MinInt64
MaxInt == <<LimbBase - 1, LimbBase - 1, LimbBase - 1, LimbBase \div 2 - 1>>
MinInt == <<0, 0, 0, LimbBase \div 2>>

\* n < 0
IntIsNegative(n) == n[IntLimbs] >= LimbBase \div 2

\* a*m + d modulo 2^64 from limb k on, for small m and d
RECURSIVE IntMulAddFrom(_, _, _, _)
IntMulAddFrom(a, m, k, carry) ==
    IF k > IntLimbs THEN <<>>
    ELSE <<(a[k] * m + carry) % LimbBase>>
         \o IntMulAddFrom(a, m, k + 1, (a[k] * m + carry) \div LimbBase)

\* a*m + d modulo 2^64 (x is a, evaluated once)
IntMulAdd(a, m, d) ==
    CHOOSE r \in {IntMulAddFrom(x, m, 1, d) : x \in {a}} : TRUE

\* Value{Type: t}: every other field has its zero value
ValueOfType(t) ==
    [Type |-> t, Token |-> TokenInvalid, Bool |-> FALSE, PairLeft |-> Nil,
     PairRight |-> Nil, Symbol |-> <<>>, Number |-> GoInt(0), StringData |-> <<>>,
     Proc |-> ""]

ValueNull == ValueOfType("ValNull")

\* NewNode(left, right): &Value{Type: ValPair, PairLeft: left, PairRight: right}
NewNode(left, right) ==
    [ValueOfType("ValPair") EXCEPT !.PairLeft = left, !.PairRight = right]

\* A panic of the Go runtime or of the code (panic(...), nil dereference,
\* slice out of range): it unwinds every caller, which the callers' error
\* paths model.
ErrPanic(msg) ==
    [kind |-> "panic", LineNumber |-> 0, OffsetInLine |-> 0,
     Text |-> ErrorText(msg, -1, "", TokenInvalid, <<>>)]

(***************************************************************************)
(* strconv.Atoi on a run of decimal digits (a TokNumber literal holds      *)
(* nothing else): the value, or a range error above the largest int.       *)
(***************************************************************************)
\* math.MaxInt64 = 9223372036854775807, as its digits
MaxIntDigits ==
    <<57, 50, 50, 51, 51, 55, 50, 48, 51, 54, 56, 53, 52, 55, 55, 53, 56, 48, 55>>

RECURSIVE StripLeadingZeros(_)
StripLeadingZeros(repr) ==
    IF Len(repr) > 1 /\ Head(repr) = ByteZero
    THEN StripLeadingZeros(Tail(repr))
    ELSE repr

\* a <= b for digit strings of the same length
RECURSIVE DigitsLeq(_, _)
DigitsLeq(a, b) ==
    IF a = <<>> THEN TRUE
    ELSE IF Head(a) # Head(b) THEN Head(a) < Head(b)
    ELSE DigitsLeq(Tail(a), Tail(b))

AtoiInRange(repr) ==
    LET d == StripLeadingZeros(repr)
    IN  \/ Len(d) < Len(MaxIntDigits)
        \/ Len(d) = Len(MaxIntDigits) /\ DigitsLeq(d, MaxIntDigits)

RECURSIVE AtoiValue(_, _)
AtoiValue(repr, acc) ==
    IF repr = <<>> THEN acc
    ELSE AtoiValue(Tail(repr), IntMulAdd(acc, 10, Head(repr) - ByteZero))

\* Atoi that yields 0 for a digit string out of range instead of failing.
AtoiTruncating(repr) ==
    IF repr # <<>> /\ (\A i \in 1..Len(repr) : IsNumeric(repr[i]))
    THEN [ok |-> TRUE,
          number |-> IF AtoiInRange(repr) THEN AtoiValue(repr, GoInt(0)) ELSE GoInt(0)]
    ELSE [ok |-> FALSE, number |-> GoInt(0)]

\* number, err := strconv.Atoi(repr)
Atoi(repr) ==
    IF repr # <<>> /\ (\A i \in 1..Len(repr) : IsNumeric(repr[i])) /\ AtoiInRange(repr)
    THEN [ok |-> TRUE, number |-> AtoiValue(repr, GoInt(0))]
    ELSE [ok |-> FALSE, number |-> GoInt(0)]

(***************************************************************************)
(* Token to Value.  A parser operation returns [val, err].                 *)
(***************************************************************************)
ValResult(val, err) == [val |-> val, err |-> err]

\* "quote", "#t", "#f", "+" as bytes
NameQuote == <<113, 117, 111, 116, 101>>
NameTrue == <<ByteHash, 116>>
NameFalse == <<ByteHash, 102>>
NamePlus == <<BytePlus>>

\* ValueFromToken without the #f and #t cases.
ValueFromTokenNoBool(lex, token) ==
    LET start == token.Offset
        end == token.Offset + token.Length
    IN  IF end > Len(lex.Source)
        THEN ValResult(ValueNull, ErrPanic("slice bounds out of range"))
        ELSE
        LET repr == SubSeq(lex.Source, start + 1, end)
        IN  CASE token.Type = "TokNumber" ->
                   LET a == Atoi(repr)
                   IN  IF ~a.ok
                       THEN ValResult(ValueNull,
                                NewError(lex.Source, token.Offset,
                                    ErrorText("Can't parse number", -1, "", token, <<>>)))
                       ELSE ValResult([ValueOfType("ValNumber") EXCEPT
                                           !.Number = a.number, !.Token = token],
                                      ErrNil)
              [] token.Type = "TokIdentifier" ->
                   ValResult([ValueOfType("ValSymbol") EXCEPT
                                  !.Symbol = repr, !.Token = token], ErrNil)
              [] token.Type = "TokString" ->
                   ValResult([ValueOfType("ValString") EXCEPT
                                  !.StringData = repr, !.Token = token], ErrNil)
              [] OTHER -> ValResult(ValueNull, ErrPanic("Cannot convert to Value"))

ValueFromToken(lex, token) ==
    LET start == token.Offset
        end == token.Offset + token.Length
    IN  IF end > Len(lex.Source)
        THEN ValResult(ValueNull, ErrPanic("slice bounds out of range"))
        ELSE
        LET repr == SubSeq(lex.Source, start + 1, end)
        IN  CASE token.Type = "TokNumber" ->
                   LET a == Atoi(repr)
                   IN  IF ~a.ok
                       THEN ValResult(ValueNull,
                                NewError(lex.Source, token.Offset,
                                    ErrorText("Can't parse number", -1, "", token, <<>>)))
                       ELSE ValResult([ValueOfType("ValNumber") EXCEPT
                                           !.Number = a.number, !.Token = token],
                                      ErrNil)
              [] token.Type = "TokIdentifier" ->
                   IF repr = NameFalse
                   THEN ValResult([ValueOfType("ValBool") EXCEPT
                                       !.Bool = FALSE, !.Token = token], ErrNil)
                   ELSE IF repr = NameTrue
                   THEN ValResult([ValueOfType("ValBool") EXCEPT
                                       !.Bool = TRUE, !.Token = token], ErrNil)
                   ELSE ValResult([ValueOfType("ValSymbol") EXCEPT
                                       !.Symbol = repr, !.Token = token], ErrNil)
              [] token.Type = "TokString" ->
                   ValResult([ValueOfType("ValString") EXCEPT
                                  !.StringData = repr, !.Token = token], ErrNil)
              [] OTHER -> ValResult(ValueNull, ErrPanic("Cannot convert to Value"))

(***************************************************************************)
(* The parser.  self is the Pars record [Lex, tokens]; input is what is    *)
(* left of the byte stream.  An operation returns the parser and the       *)
(* input after the call with its results: [self, input, token, err] or     *)
(* [self, input, val, err].                                                *)
(***************************************************************************)
\* var parser Pars
NewPars == [Lex |-> NewLex, tokens |-> <<>>]

TokResult(self, input, token, err) ==
    [self |-> self, input |-> input, token |-> token, err |-> err]

ParsResult(self, input, val, err) ==
    [self |-> self, input |-> input, val |-> val, err |-> err]

RECURSIVE NextToken(_, _)

\* NextTokenConsumed that queues the tokens returned together with an error.
NextTokenConsumedKeeps(self, input, r) ==
    IF r.err # ErrNil
    THEN TokResult([self EXCEPT !.Lex = r.lex, !.tokens = self.tokens \o r.toks],
                   Tail(input), TokenInvalid, r.err)
    ELSE NextToken([self EXCEPT !.Lex = r.lex, !.tokens = self.tokens \o r.toks],
                   Tail(input))

\* NextToken after newTokens, err := self.Lex.Consume(c[0]) returned r
NextTokenConsumed(self, input, r) ==
    IF r.err # ErrNil
    THEN TokResult([self EXCEPT !.Lex = r.lex], Tail(input), TokenInvalid, r.err)
    ELSE NextToken([self EXCEPT !.Lex = r.lex, !.tokens = self.tokens \o r.toks],
                   Tail(input))

\* NextToken that takes the token queued last.
NextTokenLifo(self, input) ==
    IF Len(self.tokens) > 0
    THEN TokResult([self EXCEPT !.tokens = SubSeq(@, 1, Len(@) - 1)], input,
                   self.tokens[Len(self.tokens)], ErrNil)
    ELSE IF input = <<>>
    THEN TokResult(self, input, TokenInvalid, ErrEOF)
    ELSE NextTokenConsumed(self, input, Consume(self.Lex, Head(input)))

\* NextToken that hands out the Number or Identifier in progress when the
\* input ends.
NextTokenFlushAtEnd(self, input) ==
    IF Len(self.tokens) > 0
    THEN TokResult([self EXCEPT !.tokens = Tail(self.tokens)], input,
                   Head(self.tokens), ErrNil)
    ELSE IF input = <<>> /\ self.Lex.state \in {"LexNumber", "LexIdentifier"}
    THEN TokResult([self EXCEPT !.Lex.state = "LexIdle"], input,
                   LastToken(self.Lex), ErrNil)
    ELSE IF input = <<>>
    THEN TokResult(self, input, TokenInvalid, ErrEOF)
    ELSE NextTokenConsumed(self, input, Consume(self.Lex, Head(input)))

NextToken(self, input) ==
    IF Len(self.tokens) > 0
    THEN TokResult([self EXCEPT !.tokens = Tail(self.tokens)], input,
                   Head(self.tokens), ErrNil)
    ELSE IF input = <<>>
    THEN TokResult(self, input, TokenInvalid, ErrEOF)
    ELSE NextTokenConsumed(self, input, Consume(self.Lex, Head(input)))

NewUnexpectedTokenError(self, token) ==
    NewError(self.Lex.Source, token.Offset,
             ErrorText("Unexpected token", -1, "", token, <<>>))

\* LinkChain that links each new Pair in front of the chain instead of after
\* its last Pair: the elements come out in reverse order.
RECURSIVE LinkChainReversed(_, _)
LinkChainReversed(lefts, tail) ==
    IF lefts = <<>> THEN tail
    ELSE NewNode(lefts[Len(lefts)],
                 LinkChainReversed(SubSeq(lefts, 1, Len(lefts) - 1), tail))

\* The chain pseudoRoot.PairRight points to: one Pair per element of lefts,
\* the last one's PairRight pointing to tail.
RECURSIVE LinkChain(_, _)
LinkChain(lefts, tail) ==
    IF lefts = <<>> THEN tail
    ELSE NewNode(Head(lefts), LinkChain(Tail(lefts), tail))

\* Value{Type: ValPair}, the node a loop iteration links in before it is filled
EmptyPair == ValueOfType("ValPair")

RECURSIVE ParseRemainingListLoop(_, _, _)
RECURSIVE ParseNextWithToken(_, _, _)

\* ParseNext(input)
ParseNext(self, input) == ParseNextWithToken(self, input, TokenInvalid)

\* DottedTailClosed that takes any token for the closing paren.
DottedTailClosedLax(t, chain) ==
    IF t.err # ErrNil
    THEN ParsResult(t.self, t.input, chain, t.err)
    ELSE ParsResult(t.self, t.input, chain, ErrNil)

\* The TokDot branch after `expression = right`: t is what the NextToken that
\* must read the closing paren returned, chain is pseudoRoot.PairRight.
DottedTailClosed(t, chain) ==
    IF t.err # ErrNil
    THEN ParsResult(t.self, t.input, chain, t.err)
    ELSE IF t.token.Type # "TokRparen"
    THEN ParsResult(t.self, t.input, chain, NewUnexpectedTokenError(t.self, t.token))
    ELSE ParsResult(t.self, t.input, chain, ErrNil)

\* DottedTailParsed that links the tail as one more element of the list
\* instead of as the last Pair's right child.
DottedTailWrapped(r, lefts) ==
    IF r.err # ErrNil
    THEN ParsResult(r.self, r.input, LinkChain(lefts, EmptyPair), r.err)
    ELSE DottedTailClosed(NextToken(r.self, r.input),
                          LinkChain(lefts, NewNode(r.val, ValueNull)))

\* The TokDot branch after right, err := self.ParseNext(input) returned r:
\* the tail takes the place of the node linked last.
DottedTailParsed(r, lefts) ==
    IF r.err # ErrNil
    THEN ParsResult(r.self, r.input, LinkChain(lefts, EmptyPair), r.err)
    ELSE DottedTailClosed(NextToken(r.self, r.input), LinkChain(lefts, r.val))

\* The TokDot branch of ParseRemainingList's loop
ParseDottedTail(self, input, lefts) ==
    DottedTailParsed(ParseNext(self, input), lefts)

\* The loop after left, err := self.ParseNextWithToken(input, token) returned l
ListElementParsed(l, lefts) ==
    IF l.err # ErrNil
    THEN ParsResult(l.self, l.input, LinkChain(lefts, EmptyPair), l.err)
    ELSE ParseRemainingListLoop(l.self, l.input, Append(lefts, l.val))

\* ListTokenRead that hands a closing paren on to ParseNextWithToken.
ListTokenReadDelegates(t, lefts) ==
    IF t.err # ErrNil
    THEN ParsResult(t.self, t.input, LinkChain(lefts, EmptyPair), t.err)
    ELSE IF t.token.Type = "TokDot"
    THEN ParseDottedTail(t.self, t.input, lefts)
    ELSE ListElementParsed(ParseNextWithToken(t.self, t.input, t.token), lefts)

\* ListTokenRead that leaves the Pair made for the next element at the end of
\* a closed list.
ListTokenReadOpenEnd(t, lefts) ==
    IF t.err # ErrNil
    THEN ParsResult(t.self, t.input, LinkChain(lefts, EmptyPair), t.err)
    ELSE IF t.token.Type = "TokDot"
    THEN ParseDottedTail(t.self, t.input, lefts)
    ELSE IF t.token.Type = "TokRparen"
    THEN ParsResult(t.self, t.input, LinkChain(lefts, EmptyPair), ErrNil)
    ELSE ListElementParsed(ParseNextWithToken(t.self, t.input, t.token), lefts)

\* The loop after token, err := self.NextToken(input) returned t
ListTokenRead(t, lefts) ==
    IF t.err # ErrNil
    THEN ParsResult(t.self, t.input, LinkChain(lefts, EmptyPair), t.err)
    ELSE IF t.token.Type = "TokDot"
    THEN ParseDottedTail(t.self, t.input, lefts)
    ELSE IF t.token.Type = "TokRparen"
    THEN ParsResult(t.self, t.input, LinkChain(lefts, ValueNull), ErrNil)
    ELSE ListElementParsed(ParseNextWithToken(t.self, t.input, t.token), lefts)

\* One iteration of ParseRemainingList's loop; lefts are the elements of the
\* Pairs already linked after pseudoRoot.
ParseRemainingListLoop(self, input, lefts) ==
    ListTokenRead(NextToken(self, input), lefts)

ParseRemainingList(self, input) == ParseRemainingListLoop(self, input, <<>>)

\* case TokLparen after right, err := self.ParseRemainingList(input) returned r
ListRestParsed(left, r) ==
    ParsResult(r.self, r.input, NewNode(left, r.val), r.err)

\* case TokLparen after left, err := self.ParseNextWithToken(input, token2)
ListFirstParsed(l) ==
    IF l.err # ErrNil
    THEN ParsResult(l.self, l.input, ValueNull, l.err)
    ELSE ListRestParsed(l.val, ParseRemainingList(l.self, l.input))

\* case TokLparen after token2, err := self.NextToken(input) returned t2
ListOpened(t2, token) ==
    IF t2.err # ErrNil
    THEN ParsResult(t2.self, t2.input, ValueNull, t2.err)
    ELSE IF t2.token.Type = "TokRparen"
    THEN ParsResult(t2.self, t2.input,
                    [ValueOfType("ValNull") EXCEPT !.Token = token], ErrNil)
    ELSE ListFirstParsed(ParseNextWithToken(t2.self, t2.input, t2.token))

\* case TokLparen of ParseNextWithToken
ParseList(self, input, token) == ListOpened(NextToken(self, input), token)

\* QuoteParsed that does not wrap the quoted expression in a list of its own.
QuoteParsedFlat(q, token) ==
    ParsResult(q.self, q.input,
               NewNode([ValueOfType("ValSymbol") EXCEPT
                            !.Symbol = NameQuote, !.Token = token],
                       q.val),
               q.err)

\* case TokQuote after quoted, err := self.ParseNext(input) returned q
QuoteParsed(q, token) ==
    ParsResult(q.self, q.input,
               NewNode([ValueOfType("ValSymbol") EXCEPT
                            !.Symbol = NameQuote, !.Token = token],
                       NewNode(q.val, ValueNull)),
               q.err)

\* case TokQuote of ParseNextWithToken
ParseQuote(self, input, token) == QuoteParsed(ParseNext(self, input), token)

\* case TokIdentifier, TokNumber, TokString: return ValueFromToken(self.Lex, token)
ParseAtom(self, input, v) == ParsResult(self, input, v.val, v.err)

\* The switch of ParseNextWithToken on the token it settled on
\* ParseToken that aborts on a closing paren.
ParseTokenAbort(self, input, token) ==
    CASE token.Type \in {"TokIdentifier", "TokNumber", "TokString"} ->
           ParseAtom(self, input, ValueFromToken(self.Lex, token))
      [] token.Type = "TokLparen" -> ParseList(self, input, token)
      [] token.Type = "TokQuote" -> ParseQuote(self, input, token)
      [] token.Type = "TokRparen" ->
           ParsResult(self, input, ValueNull, ErrPanic("Delegated unexpected"))
      [] OTHER -> ParsResult(self, input, ValueNull,
                             NewUnexpectedTokenError(self, token))

\* switch token.Type of ParseNextWithToken
ParseToken(self, input, token) ==
    CASE token.Type \in {"TokIdentifier", "TokNumber", "TokString"} ->
           ParseAtom(self, input, ValueFromToken(self.Lex, token))
      [] token.Type = "TokLparen" -> ParseList(self, input, token)
      [] token.Type = "TokQuote" -> ParseQuote(self, input, token)
      [] OTHER -> ParsResult(self, input, ValueNull,
                             NewUnexpectedTokenError(self, token))

\* ParseNextWithToken after newToken, err := self.NextToken(input) returned t
FirstTokenRead(t) ==
    IF t.err # ErrNil
    THEN ParsResult(t.self, t.input, ValueNull, t.err)
    ELSE ParseToken(t.self, t.input, t.token)

ParseNextWithToken(self, input, parentToken) ==
    IF parentToken.Type = "TokRparen"
    THEN ParsResult(self, input, ValueNull, ErrPanic("Delegated unexpected"))
    ELSE IF parentToken.Type = "TokInvalid"
    THEN FirstTokenRead(NextToken(self, input))
    ELSE ParseToken(self, input, parentToken)

(***************************************************************************)
(* The evaluator.  interp is [Source, Table]; Source is the parser's       *)
(* source at the time of the call (the Go field is a pointer to it).  A    *)
(* native procedure is named by the closure that implements it.            *)
(***************************************************************************)
\* IntAdd as an assignment: acc = left.Number
IntAddAssign(a, b) == b

\* a + b modulo 2^64 from limb k on
RECURSIVE IntAddFrom(_, _, _, _)
IntAddFrom(a, b, k, carry) ==
    IF k > IntLimbs THEN <<>>
    ELSE <<(a[k] + b[k] + carry) % LimbBase>>
         \o IntAddFrom(a, b, k + 1, (a[k] + b[k] + carry) \div LimbBase)

\* acc += left.Number: Go's int addition, which wraps around at 64 bits
\* (x and y are a and b, evaluated once)
IntAdd(a, b) ==
    CHOOSE r \in {IntAddFrom(x, y, 1, 0) : x \in {a}, y \in {b}} : TRUE

RECURSIVE plusFnLoop(_, _, _)
plusFnLoop(arg, interp, acc) ==
    IF arg.Type = "ValNull"
    THEN ValResult([ValueOfType("ValNumber") EXCEPT !.Number = acc], ErrNil)
    ELSE IF arg.Type # "ValPair"
    THEN ValResult(ValueNull,
             NewError(interp.Source, arg.Token.Offset,
                 ErrorText("Unexpected arg carrier type, expected ValPair",
                           -1, arg.Type, TokenInvalid, <<>>)))
    ELSE IF arg.PairLeft = Nil
    THEN ValResult(ValueNull, ErrPanic("nil pointer dereference"))
    ELSE IF arg.PairLeft.Type # "ValNumber"
    THEN ValResult(ValueNull,
             NewError(interp.Source, arg.Token.Offset,
                 ErrorText("Unexpected value type, expected ValNumber",
                           -1, arg.Type, TokenInvalid, <<>>)))
    ELSE IF arg.PairRight = Nil \/ arg.PairRight.Type = "ValNull"
    THEN ValResult([ValueOfType("ValNumber") EXCEPT
                        !.Number = IntAdd(acc, arg.PairLeft.Number)], ErrNil)
    ELSE plusFnLoop(arg.PairRight, interp, IntAdd(acc, arg.PairLeft.Number))

plusFn(arg, interp) == plusFnLoop(arg, interp, GoInt(0))

quoteFn(arg, interp) == ValResult(arg, ErrNil)

\* left.Proc(right, *self)
CallProc(proc, arg, interp) ==
    CASE proc = "plusFn" -> plusFn(arg, interp)
      [] proc = "quoteFn" -> quoteFn(arg, interp)

\* interpreter.Table of TestEval
TestEvalTable ==
    (NamePlus :> [ValueOfType("ValProc") EXCEPT !.Proc = "plusFn"]) @@
    (NameQuote :> [ValueOfType("ValProc") EXCEPT !.Proc = "quoteFn"])

NewInterp(source, table) == [Source |-> source, Table |-> table]

\* *pseudoRoot.PairRight of EvalRight when it returns an error: the Pairs
\* linked so far, the last one's PairRight still nil, or the initial Null.
PartialChain(lefts) ==
    IF lefts = <<>> THEN ValueNull ELSE LinkChain(lefts, Nil)

RECURSIVE Eval(_, _)
RECURSIVE EvalRightLoop(_, _, _)

\* EvalRightLoop that links each new Pair in front of the result chain.
RECURSIVE EvalRightLoopReversed(_, _, _)
EvalRightLoopReversed(interp, expression, lefts) ==
    IF expression.Type # "ValPair"
    THEN LET r == Eval(interp, expression)
         IN  IF r.err # ErrNil
             THEN ValResult(PartialChain(lefts), r.err)
             ELSE ValResult(LinkChain(lefts, r.val), ErrNil)
    ELSE IF expression.PairLeft = Nil
    THEN ValResult(PartialChain(lefts), ErrPanic("nil pointer dereference"))
    ELSE LET l == Eval(interp, expression.PairLeft)
         IN  IF l.err # ErrNil
             THEN ValResult(PartialChain(lefts), l.err)
             ELSE IF expression.PairRight = Nil
             THEN ValResult(PartialChain(lefts), ErrPanic("nil pointer dereference"))
             ELSE EvalRightLoopReversed(interp, expression.PairRight,
                                        <<l.val>> \o lefts)

\* One iteration of EvalRight's loop; lefts are the values held by the Pairs
\* already linked after pseudoRoot.
EvalRightLoop(interp, expression, lefts) ==
    IF expression.Type # "ValPair"
    THEN LET r == Eval(interp, expression)
         IN  IF r.err # ErrNil
             THEN ValResult(PartialChain(lefts), r.err)
             ELSE ValResult(LinkChain(lefts, r.val), ErrNil)
    ELSE IF expression.PairLeft = Nil
    THEN ValResult(PartialChain(lefts), ErrPanic("nil pointer dereference"))
    ELSE LET l == Eval(interp, expression.PairLeft)
         IN  IF l.err # ErrNil
             THEN ValResult(PartialChain(lefts), l.err)
             ELSE IF expression.PairRight = Nil
             THEN ValResult(PartialChain(lefts), ErrPanic("nil pointer dereference"))
             ELSE EvalRightLoop(interp, expression.PairRight, Append(lefts, l.val))

EvalRight(interp, expression) == EvalRightLoop(interp, expression, <<>>)

\* EvalSymbol that places the error at the start of the source.
EvalSymbolAtStart(interp, expression) ==
    IF expression.Symbol \notin DOMAIN interp.Table
    THEN ValResult(ValueNull,
             NewError(interp.Source, 0,
                 ErrorText("Unbound variable", -1, "", TokenInvalid,
                           expression.Symbol)))
    ELSE ValResult(interp.Table[expression.Symbol], ErrNil)

\* case ValSymbol of Eval
EvalSymbol(interp, expression) ==
    IF expression.Symbol \notin DOMAIN interp.Table
    THEN ValResult(ValueNull,
             NewError(interp.Source, expression.Token.Offset,
                 ErrorText("Unbound variable", -1, "", TokenInvalid,
                           expression.Symbol)))
    ELSE ValResult(interp.Table[expression.Symbol], ErrNil)

\* EvalPair that evaluates the arguments before it looks at the head's type.
EvalPairArgsFirst(interp, expression) ==
    IF expression.PairLeft = Nil
    THEN ValResult(ValueNull, ErrPanic("nil pointer dereference"))
    ELSE LET left == Eval(interp, expression.PairLeft)
         IN  IF left.err # ErrNil
             THEN ValResult(ValueNull, left.err)
             ELSE IF expression.PairRight = Nil
             THEN ValResult(ValueNull, ErrPanic("nil pointer dereference"))
             ELSE LET right == EvalRight(interp, expression.PairRight)
                  IN  IF right.err # ErrNil
                      THEN ValResult(ValueNull, right.err)
                      ELSE IF left.val.Type # "ValProc"
                      THEN ValResult(ValueNull,
                               NewError(interp.Source, expression.Token.Offset,
                                   ErrorText("Wrong type to apply", -1, "",
                                             TokenInvalid, <<>>)))
                      ELSE CallProc(left.val.Proc, right.val, interp)

\* EvalPair that calls the procedure with what EvalRight returned even when
\* EvalRight returned an error.
EvalPairSwallow(interp, expression) ==
    IF expression.PairLeft = Nil
    THEN ValResult(ValueNull, ErrPanic("nil pointer dereference"))
    ELSE LET left == Eval(interp, expression.PairLeft)
         IN  IF left.err # ErrNil
             THEN ValResult(ValueNull, left.err)
             ELSE IF left.val.Type # "ValProc"
             THEN ValResult(ValueNull,
                      NewError(interp.Source, expression.Token.Offset,
                          ErrorText("Wrong type to apply", -1, "", TokenInvalid, <<>>)))
             ELSE IF expression.PairRight = Nil
             THEN ValResult(ValueNull, ErrPanic("nil pointer dereference"))
             ELSE CallProc(left.val.Proc,
                           EvalRight(interp, expression.PairRight).val, interp)

\* EvalPair that hands quote its arguments as they are written.
EvalPairQuoteSpecial(interp, expression) ==
    IF expression.PairLeft = Nil
    THEN ValResult(ValueNull, ErrPanic("nil pointer dereference"))
    ELSE LET left == Eval(interp, expression.PairLeft)
         IN  IF left.err # ErrNil
             THEN ValResult(ValueNull, left.err)
             ELSE IF left.val.Type # "ValProc"
             THEN ValResult(ValueNull,
                      NewError(interp.Source, expression.Token.Offset,
                          ErrorText("Wrong type to apply", -1, "", TokenInvalid, <<>>)))
             ELSE IF expression.PairRight = Nil
             THEN ValResult(ValueNull, ErrPanic("nil pointer dereference"))
             ELSE IF left.val.Proc = "quoteFn"
             THEN CallProc(left.val.Proc, expression.PairRight, interp)
             ELSE LET right == EvalRight(interp, expression.PairRight)
                  IN  IF right.err # ErrNil
                      THEN ValResult(ValueNull, right.err)
                      ELSE CallProc(left.val.Proc, right.val, interp)

\* case ValPair of Eval
EvalPair(interp, expression) ==
    IF expression.PairLeft = Nil
    THEN ValResult(ValueNull, ErrPanic("nil pointer dereference"))
    ELSE LET left == Eval(interp, expression.PairLeft)
         IN  IF left.err # ErrNil
             THEN ValResult(ValueNull, left.err)
             ELSE IF left.val.Type # "ValProc"
             THEN ValResult(ValueNull,
                      NewError(interp.Source, expression.Token.Offset,
                          ErrorText("Wrong type to apply", -1, "", TokenInvalid, <<>>)))
             ELSE IF expression.PairRight = Nil
             THEN ValResult(ValueNull, ErrPanic("nil pointer dereference"))
             ELSE LET right == EvalRight(interp, expression.PairRight)
                  IN  IF right.err # ErrNil
                      THEN ValResult(ValueNull, right.err)
                      ELSE CallProc(left.val.Proc, right.val, interp)

\* Eval that gives Null for the variants it has no case for.
EvalOtherNull(interp, expression) ==
    CASE expression.Type = "ValSymbol" -> EvalSymbol(interp, expression)
      [] expression.Type = "ValPair" -> EvalPair(interp, expression)
      [] OTHER -> ValResult(ValueNull, ErrNil)

Eval(interp, expression) ==
    CASE expression.Type = "ValSymbol" -> EvalSymbol(interp, expression)
      [] expression.Type = "ValPair" -> EvalPair(interp, expression)
      [] OTHER -> ValResult(expression, ErrNil)

(***************************************************************************)
(* The evaluator's stores.  The same code with its Values held in memory:  *)
(* mem is [nodes, table]; nodes is the sequence of the Values that have an *)
(* address, an address is an index into it and NilAddr is nil; table is    *)
(* the map interp.Table refers to.  A Value's PairLeft and PairRight are   *)
(* addresses here.  A variable whose address is taken gets a new node.     *)
(* An operation returns the memory after the call with its results.        *)
(***************************************************************************)
NilAddr == 0

\* a Value without children as it lies in memory
Cell(v) == [v EXCEPT !.PairLeft = NilAddr, !.PairRight = NilAddr]

MemResult(mem, val, err) == [mem |-> mem, val |-> val, err |-> err]

\* &v for a variable v holding cell
Alloc(mem, cell) ==
    [mem |-> [mem EXCEPT !.nodes = Append(mem.nodes, cell)],
     addr |-> Len(mem.nodes) + 1]

\* the nodes of the tree v, children first, when the nodes before them
\* number base: a node's children lie at the ends of their own subtrees
RECURSIVE TreeNodes(_, _)
TreeNodes(v, base) ==
    IF v = Nil THEN <<>>
    ELSE LET l == TreeNodes(v.PairLeft, base)
             r == TreeNodes(v.PairRight, base + Len(l))
         IN  l \o r \o
             <<[v EXCEPT
                  !.PairLeft = IF l = <<>> THEN NilAddr ELSE base + Len(l),
                  !.PairRight = IF r = <<>> THEN NilAddr
                                ELSE base + Len(l) + Len(r)]>>

\* the tree v put in memory after the nodes mem has, and its address
StoreTree(mem, v) ==
    [mem |-> [mem EXCEPT !.nodes = mem.nodes \o TreeNodes(v, Len(mem.nodes))],
     addr |-> Len(mem.nodes) + Len(TreeNodes(v, Len(mem.nodes)))]

\* the tree that starts at addr
RECURSIVE LoadTree(_, _)
LoadTree(nodes, addr) ==
    IF addr = NilAddr THEN Nil
    ELSE [nodes[addr] EXCEPT !.PairLeft = LoadTree(nodes, nodes[addr].PairLeft),
                             !.PairRight = LoadTree(nodes, nodes[addr].PairRight)]

\* the tree a Value held in a variable stands for
LoadValue(nodes, cell) ==
    [cell EXCEPT !.PairLeft = LoadTree(nodes, cell.PairLeft),
                 !.PairRight = LoadTree(nodes, cell.PairRight)]

\* plusFn's loop; arg is the variable, its children are in memory
RECURSIVE plusFnLoopMem(_, _, _, _)
plusFnLoopMem(mem, source, arg, acc) ==
    IF arg.Type = "ValNull"
    THEN MemResult(mem, Cell([ValueOfType("ValNumber") EXCEPT !.Number = acc]), ErrNil)
    ELSE IF arg.Type # "ValPair"
    THEN MemResult(mem, Cell(ValueNull),
             NewError(source, arg.Token.Offset,
                 ErrorText("Unexpected arg carrier type, expected ValPair",
                           -1, arg.Type, TokenInvalid, <<>>)))
    ELSE IF arg.PairLeft = NilAddr
    THEN MemResult(mem, Cell(ValueNull), ErrPanic("nil pointer dereference"))
    ELSE IF mem.nodes[arg.PairLeft].Type # "ValNumber"
    THEN MemResult(mem, Cell(ValueNull),
             NewError(source, arg.Token.Offset,
                 ErrorText("Unexpected value type, expected ValNumber",
                           -1, arg.Type, TokenInvalid, <<>>)))
    ELSE IF arg.PairRight = NilAddr \/ mem.nodes[arg.PairRight].Type = "ValNull"
    THEN MemResult(mem,
             Cell([ValueOfType("ValNumber") EXCEPT
                       !.Number = IntAdd(acc, mem.nodes[arg.PairLeft].Number)]),
             ErrNil)
    ELSE plusFnLoopMem(mem, source, mem.nodes[arg.PairRight],
                       IntAdd(acc, mem.nodes[arg.PairLeft].Number))

plusFnMem(mem, source, arg) == plusFnLoopMem(mem, source, arg, GoInt(0))

quoteFnMem(mem, source, arg) == MemResult(mem, arg, ErrNil)

CallProcMem(proc, mem, source, arg) ==
    CASE proc = "plusFn" -> plusFnMem(mem, source, arg)
      [] proc = "quoteFn" -> quoteFnMem(mem, source, arg)

\* *pseudoRoot.PairRight
RootRight(mem, pseudoRoot) == mem.nodes[mem.nodes[pseudoRoot].PairRight]

RECURSIVE EvalMem(_, _, _)
RECURSIVE EvalRightLoopMem(_, _, _, _, _)

\* EvalRightLoopMem that puts each element's value in the element's own node
\* of the argument list instead of in a new node.
RECURSIVE EvalRightLoopMemInPlace(_, _, _, _, _)
EvalRightLoopMemInPlace(mem, source, expression, lastPair, pseudoRoot) ==
    IF expression.Type # "ValPair"
    THEN LET r == EvalMem(mem, source, expression)
         IN  IF r.err # ErrNil
             THEN MemResult(r.mem, RootRight(r.mem, pseudoRoot), r.err)
             ELSE LET right == Alloc(r.mem, r.val)
                      linked == [right.mem EXCEPT
                                     !.nodes[lastPair].PairRight = right.addr]
                  IN  MemResult(linked, RootRight(linked, pseudoRoot), ErrNil)
    ELSE IF expression.PairLeft = NilAddr
    THEN MemResult(mem, RootRight(mem, pseudoRoot), ErrPanic("nil pointer dereference"))
    ELSE LET l == EvalMem(mem, source, mem.nodes[expression.PairLeft])
         IN  IF l.err # ErrNil
             THEN MemResult(l.mem, RootRight(l.mem, pseudoRoot), l.err)
             ELSE LET kept == [l.mem EXCEPT !.nodes[expression.PairLeft] = l.val]
                      value == Alloc(kept, [Cell(ValueOfType("ValPair")) EXCEPT
                                                 !.PairLeft = expression.PairLeft])
                      linked == [value.mem EXCEPT
                                     !.nodes[lastPair].PairRight = value.addr]
                  IN  IF expression.PairRight = NilAddr
                      THEN MemResult(linked, RootRight(linked, pseudoRoot),
                                     ErrPanic("nil pointer dereference"))
                      ELSE EvalRightLoopMemInPlace(linked, source,
                               linked.nodes[expression.PairRight],
                               value.addr, pseudoRoot)

\* One iteration of EvalRight's loop.  left, right and value are variables
\* of the iteration whose addresses are taken: each gets a new node.
EvalRightLoopMem(mem, source, expression, lastPair, pseudoRoot) ==
    IF expression.Type # "ValPair"
    THEN LET r == EvalMem(mem, source, expression)
         IN  IF r.err # ErrNil
             THEN MemResult(r.mem, RootRight(r.mem, pseudoRoot), r.err)
             ELSE LET right == Alloc(r.mem, r.val)
                      linked == [right.mem EXCEPT
                                     !.nodes[lastPair].PairRight = right.addr]
                  IN  MemResult(linked, RootRight(linked, pseudoRoot), ErrNil)
    ELSE IF expression.PairLeft = NilAddr
    THEN MemResult(mem, RootRight(mem, pseudoRoot), ErrPanic("nil pointer dereference"))
    ELSE LET l == EvalMem(mem, source, mem.nodes[expression.PairLeft])
         IN  IF l.err # ErrNil
             THEN MemResult(l.mem, RootRight(l.mem, pseudoRoot), l.err)
             ELSE LET left == Alloc(l.mem, l.val)
                      value == Alloc(left.mem, [Cell(ValueOfType("ValPair")) EXCEPT
                                                     !.PairLeft = left.addr])
                      linked == [value.mem EXCEPT
                                     !.nodes[lastPair].PairRight = value.addr]
                  IN  IF expression.PairRight = NilAddr
                      THEN MemResult(linked, RootRight(linked, pseudoRoot),
                                     ErrPanic("nil pointer dereference"))
                      ELSE EvalRightLoopMem(linked, source,
                               linked.nodes[expression.PairRight],
                               value.addr, pseudoRoot)

\* pseudoRoot := Value{Type: ValPair, PairRight: &Value{Type: ValNull}}
EvalRightMem(mem, source, expression) ==
    LET null == Alloc(mem, Cell(ValueNull))
        pseudoRoot == Alloc(null.mem, [Cell(ValueOfType("ValPair")) EXCEPT
                                           !.PairRight = null.addr])
    IN  EvalRightLoopMem(pseudoRoot.mem, source, expression,
                         pseudoRoot.addr, pseudoRoot.addr)

EvalSymbolMem(mem, source, expression) ==
    IF expression.Symbol \notin DOMAIN mem.table
    THEN MemResult(mem, Cell(ValueNull),
             NewError(source, expression.Token.Offset,
                 ErrorText("Unbound variable", -1, "", TokenInvalid,
                           expression.Symbol)))
    ELSE MemResult(mem, Cell(mem.table[expression.Symbol]), ErrNil)

EvalPairMem(mem, source, expression) ==
    IF expression.PairLeft = NilAddr
    THEN MemResult(mem, Cell(ValueNull), ErrPanic("nil pointer dereference"))
    ELSE LET left == EvalMem(mem, source, mem.nodes[expression.PairLeft])
         IN  IF left.err # ErrNil
             THEN MemResult(left.mem, Cell(ValueNull), left.err)
             ELSE IF left.val.Type # "ValProc"
             THEN MemResult(left.mem, Cell(ValueNull),
                      NewError(source, expression.Token.Offset,
                          ErrorText("Wrong type to apply", -1, "", TokenInvalid, <<>>)))
             ELSE IF expression.PairRight = NilAddr
             THEN MemResult(left.mem, Cell(ValueNull),
                            ErrPanic("nil pointer dereference"))
             ELSE LET right == EvalRightMem(left.mem, source,
                                            left.mem.nodes[expression.PairRight])
                  IN  IF right.err # ErrNil
                      THEN MemResult(right.mem, Cell(ValueNull), right.err)
                      ELSE CallProcMem(left.val.Proc, right.mem, source, right.val)

EvalMem(mem, source, expression) ==
    CASE expression.Type = "ValSymbol" -> EvalSymbolMem(mem, source, expression)
      [] expression.Type = "ValPair" -> EvalPairMem(mem, source, expression)
      [] OTHER -> MemResult(mem, expression, ErrNil)

(***************************************************************************)
(* Inputs.  The byte stream on standard input is either a short run of     *)
(* arbitrary bytes or the text of an expression: a tree of atoms, proper   *)
(* lists and dotted lists written in the language's own syntax, as is      *)
(* ("plain") or behind a quote mark ("sugar"), followed by a line feed.    *)
(* Trees are written as Values whose Token is the zero Token.              *)
(***************************************************************************)
MaxSrcLen == 4
MaxListLen == 3
MaxRawLen == 3

ByteOne == ByteZero + 1

\* the Number n, for a small n, and the Number of a machine integer
Num(n) == [ValueOfType("ValNumber") EXCEPT !.Number = GoInt(n)]
NumOf(i) == [ValueOfType("ValNumber") EXCEPT !.Number = i]
Sym(s) == [ValueOfType("ValSymbol") EXCEPT !.Symbol = s]
Str(d) == [ValueOfType("ValString") EXCEPT !.StringData = d]
BoolV(b) == [ValueOfType("ValBool") EXCEPT !.Bool = b]

\* the list (e1 ... en . tail), built from its last element backwards
RECURSIVE ListWithTail(_, _)
ListWithTail(elems, tail) ==
    IF elems = <<>> THEN tail
    ELSE ListWithTail(SubSeq(elems, 1, Len(elems) - 1),
                      [ValueOfType("ValPair") EXCEPT
                           !.PairLeft = elems[Len(elems)], !.PairRight = tail])

ProperList(elems) == ListWithTail(elems, ValueNull)

SeqsOfLen(S, lo, hi) == UNION {[1..k -> S] : k \in lo..hi}

NameA == <<ByteLowerA>>
TextX == <<ByteDQuote, 120, ByteDQuote>>

Atoms == {Num(1), Num(2), Sym(NameA), Sym(NamePlus), Str(TextX)}

SmallExprs ==
    {Num(40), Sym(NamePlus), BoolV(TRUE), ValueNull,
     ProperList(<<Sym(NamePlus), Num(1), Num(2)>>),
     ListWithTail(<<Num(1)>>, Num(2))}

BaseExprs ==
    Atoms \cup {BoolV(TRUE), BoolV(FALSE)}
    \cup {ProperList(es) : es \in SeqsOfLen(Atoms, 0, MaxListLen)}
    \cup {ListWithTail(es, t) :
              es \in SeqsOfLen(Atoms, 1, MaxListLen - 1), t \in Atoms}
    \cup {ProperList(es) : es \in SeqsOfLen(SmallExprs, 1, MaxListLen)}

\* (quote E)
QuoteForm(e) == ProperList(<<Sym(NameQuote), e>>)

\* applications of quote to several arguments and to a dotted argument list
QuoteArgs == {Num(1), Num(2), Sym(NameA), Sym(NamePlus)}

QuoteLists ==
    {ProperList(<<Sym(NameQuote)>> \o es) :
         es \in SeqsOfLen(QuoteArgs, 2, MaxListLen - 1)}
    \cup {ListWithTail(<<Sym(NameQuote)>> \o es, t) :
              es \in SeqsOfLen(QuoteArgs, 0, MaxListLen - 1), t \in QuoteArgs}

\* sums of Numbers near the largest machine integer: math.MaxInt64 + 1,
\* math.MaxInt64 + 0, twice math.MaxInt64, and 2^62 + 2^62
HalfInt == <<0, 0, 0, LimbBase \div 4>>

BigSums ==
    {ProperList(<<Sym(NamePlus), NumOf(a), NumOf(b)>>) :
         a \in {MaxInt, HalfInt}, b \in {GoInt(0), GoInt(1)}}
    \cup {ProperList(<<Sym(NamePlus), NumOf(a), NumOf(a)>>) : a \in {MaxInt, HalfInt}}

Exprs == BaseExprs \cup {QuoteForm(e) : e \in BaseExprs} \cup QuoteLists \cup BigSums

\* the limbs 1..k of a \div d and a % d, a read as an unsigned number and
\* rem the remainder of the limbs above k, for a small d
RECURSIVE IntDivFrom(_, _, _, _)
IntDivFrom(a, d, k, rem) ==
    IF k = 0 THEN <<>>
    ELSE IntDivFrom(a, d, k - 1, (rem * LimbBase + a[k]) % d)
         \o <<(rem * LimbBase + a[k]) \div d>>

RECURSIVE IntRemFrom(_, _, _, _)
IntRemFrom(a, d, k, rem) ==
    IF k = 0 THEN rem
    ELSE IntRemFrom(a, d, k - 1, (rem * LimbBase + a[k]) % d)

\* -n modulo 2^64
IntNeg(n) ==
    CHOOSE r \in {IntAdd([k \in 1..IntLimbs |-> LimbBase - 1 - x[k]], GoInt(1)) :
                      x \in {n}} : TRUE

\* the decimal digits of n read as an unsigned number (x is n, evaluated
\* once)
RECURSIVE UnsignedDigits(_)
UnsignedDigits(n) ==
    CHOOSE r \in
        {IF IntDivFrom(x, 10, IntLimbs, 0) = GoInt(0)
         THEN <<ByteZero + IntRemFrom(x, 10, IntLimbs, 0)>>
         ELSE UnsignedDigits(IntDivFrom(x, 10, IntLimbs, 0))
              \o <<ByteZero + IntRemFrom(x, 10, IntLimbs, 0)>> : x \in {n}} : TRUE

\* strconv.Itoa
Itoa(n) ==
    IF IntIsNegative(n) THEN <<ByteMinus>> \o UnsignedDigits(IntNeg(n))
    ELSE UnsignedDigits(n)

RECURSIVE Text(_)
RECURSIVE TextItems(_)
Text(v) ==
    CASE v.Type = "ValNumber" -> Itoa(v.Number)
      [] v.Type = "ValSymbol" -> v.Symbol
      [] v.Type = "ValBool" -> IF v.Bool THEN NameTrue ELSE NameFalse
      [] v.Type = "ValString" -> v.StringData
      [] v.Type = "ValNull" -> <<ByteLparen, ByteRparen>>
      [] v.Type = "ValPair" -> <<ByteLparen>> \o TextItems(v) \o <<ByteRparen>>

TextItems(v) ==
    Text(v.PairLeft) \o
    (IF v.PairRight.Type = "ValNull" THEN <<>>
     ELSE IF v.PairRight.Type = "ValPair"
     THEN <<ByteSpace>> \o TextItems(v.PairRight)
     ELSE <<ByteSpace, ByteDot, ByteSpace>> \o Text(v.PairRight))

\* the two bytes of U+00E9 in UTF-8, C3 A9: no lexer state accepts either
ByteLead == 195
ByteCont == 169

RawBytes ==
    {ByteLparen, ByteRparen, ByteDot, ByteQuote, ByteOne, ByteLowerA,
     ByteSpace, ByteLF, ByteDQuote, ByteCtl, ByteLead, ByteCont}

Given(form, expr, bytes) == [form |-> form, expr |-> expr, bytes |-> bytes]

\* what may stand where a dotted list must close: the bytes, and the token
\* they begin with
Follower(bytes, type, length) == [bytes |-> bytes, type |-> type, length |-> length]

Followers ==
    {Follower(<<ByteLparen>>, "TokLparen", 1),
     Follower(<<ByteQuote>>, "TokQuote", 1),
     Follower(<<ByteDot>>, "TokDot", 1),
     Follower(<<ByteOne, ByteSpace>>, "TokNumber", 1),
     Follower(<<ByteLowerA, ByteSpace>>, "TokIdentifier", 1),
     Follower(TextX, "TokString", Len(TextX))}

\* dotted lists (h . t) written with a blank in place of the closing paren
UnclosedLists ==
    {ListWithTail(<<h>>, t) :
         h \in {Num(1), Sym(NameA)},
         t \in {Num(2), Sym(NameA), ProperList(<<Num(1)>>)}}

\* "(h . t " for the Pair e of h and t
Unclosed(e) ==
    <<ByteLparen>> \o Text(e.PairLeft) \o <<ByteSpace, ByteDot, ByteSpace>>
        \o Text(e.PairRight) \o <<ByteSpace>>

\* heads h of the lists "(h . )" whose tail is missing
NoTailHeads == {Num(1), Sym(NameA), ProperList(<<Num(1)>>)}

\* "(h . )": the closing paren stands where the tail is expected
NoTail(h) ==
    <<ByteLparen>> \o Text(h) \o <<ByteSpace, ByteDot, ByteSpace, ByteRparen>>

\* digit strings that do not fit the machine integer: math.MaxInt64 + 1, the
\* same after a zero, and twenty nines
TooBigDigits ==
    {SubSeq(MaxIntDigits, 1, Len(MaxIntDigits) - 1) \o <<ByteNine - 1>>,
     <<ByteZero>> \o SubSeq(MaxIntDigits, 1, Len(MaxIntDigits) - 1) \o <<ByteNine - 1>>,
     [i \in 1..20 |-> ByteNine]}

\* what stands before such a number: nothing, or the start of a list
TooBigPrefixes == {<<>>, <<ByteLparen>>, <<ByteLparen, ByteOne, ByteSpace>>}

Givens ==
    {Given("plain", e, Text(e) \o <<ByteLF>>) : e \in Exprs}
    \cup {Given("sugar", e, <<ByteQuote>> \o Text(e) \o <<ByteLF>>) : e \in BaseExprs}
    \cup {Given("raw", ValueNull, b) : b \in SeqsOfLen(RawBytes, 0, MaxRawLen)}
    \cup {Given("unclosed", e, Unclosed(e) \o f.bytes \o <<ByteLF>>) :
              e \in UnclosedLists, f \in Followers}
    \cup {Given("notail", h, NoTail(h) \o <<ByteLF>>) : h \in NoTailHeads}
    \cup {Given("toobig", Str(d), p \o d \o <<ByteLF>>) :
              p \in TooBigPrefixes, d \in TooBigDigits}

\* Bytes the lexer is driven with, one of each kind it tells apart.
\* '@', the byte just below the letters: printable, in no class of the lexer
ByteAt == ByteUpperA - 1

LexBytes ==
    {ByteLparen, ByteRparen, ByteDot, ByteQuote, ByteSpace, ByteLF, ByteCR,
     ByteOne, ByteLowerA, ByteDQuote, ByteSemicolon, ByteBackslash, ByteCtl,
     ByteAt, ByteMinus, ByteLead, ByteCont}

(***************************************************************************)
(* State.                                                                  *)
(*   given        the input standard input was loaded with                 *)
(*   input        the bytes of standard input not read yet                 *)
(*   parser       TestEval's parser (its lexer and pending-token queue)    *)
(*   interpreter  TestEval's interpreter (its Table)                       *)
(*   pc           where TestEval's loop is: "parse" before ParseNext,      *)
(*                "eval" before Eval, "done" after the break, "panic"      *)
(*   expression, err, result   the loop's variables                        *)
(*   output       the lines printed so far                                 *)
(*   lex, prevLex a lexer fed one byte at a time, and the same lexer       *)
(*                before its last Consume                                  *)
(*   lastByte, newTokens, lexErr   that Consume's argument and results     *)
(***************************************************************************)
VARIABLES given, input, parser, interpreter, pc, expression, err, result, output,
          lex, prevLex, lastByte, newTokens, lexErr, consumed

hostVars == <<given, input, parser, interpreter, pc, expression, err, result, output>>
lexVars == <<lex, prevLex, lastByte, newTokens, lexErr, consumed>>
vars == <<given, input, parser, interpreter, pc, expression, err, result, output,
          lex, prevLex, lastByte, newTokens, lexErr, consumed>>

Line(kind, e, value) == [kind |-> kind, err |-> e, value |-> value]

HostStart(g) ==
    /\ given = g
    /\ input = g.bytes
    /\ parser = NewPars
    /\ interpreter = [Table |-> TestEvalTable]
    /\ pc = "parse"
    /\ expression = ValueNull
    /\ err = ErrNil
    /\ result = ValueNull
    /\ output = <<>>

LexStart ==
    /\ lex = NewLex
    /\ prevLex = NewLex
    /\ lastByte = -1
    /\ newTokens = <<>>
    /\ lexErr = ErrNil
    /\ consumed = <<>>

\* AfterParse that leaves the loop on any error.
AfterParseStop(e) ==
    CASE e.kind = "EOF" -> "done"
      [] e.kind = "panic" -> "panic"
      [] e.kind = "Error" -> "done"
      [] OTHER -> "eval"

\* AfterParse that hands the expression to Eval after a parse error too.
AfterParseEvalOnError(e) ==
    CASE e.kind = "EOF" -> "done"
      [] e.kind = "panic" -> "panic"
      [] OTHER -> "eval"

\* AfterParse that does not break on io.EOF.
AfterParseIgnoreEOF(e) ==
    CASE e.kind = "panic" -> "panic"
      [] e.kind = "EOF" -> "parse"
      [] e.kind = "Error" -> "parse"
      [] OTHER -> "eval"

\* where the loop goes after ParseNext returned e: break on io.EOF, continue
\* on any other error, on to Eval otherwise
AfterParse(e) ==
    CASE e.kind = "EOF" -> "done"
      [] e.kind = "panic" -> "panic"
      [] e.kind = "Error" -> "parse"
      [] OTHER -> "eval"

\* expression, err := parser.ParseNext(os.Stdin) and the branches on err
HostParse ==
    /\ pc = "parse"
    /\ LET r == ParseNext(parser, input)
       IN  /\ parser' = r.self
           /\ input' = r.input
           /\ expression' = r.val
           /\ err' = r.err
           /\ pc' = AfterParse(r.err)
           /\ output' = IF r.err.kind = "Error"
                        THEN Append(output, Line("Parsing error", r.err, ValueNull))
                        ELSE output
    /\ UNCHANGED <<given, interpreter, result>>
    /\ UNCHANGED lexVars

\* result, err := interpreter.Eval(expression) and the two prints
HostEval ==
    /\ pc = "eval"
    /\ LET r == Eval(NewInterp(parser.Lex.Source, interpreter.Table), expression)
       IN  /\ result' = r.val
           /\ err' = r.err
           /\ pc' = IF r.err.kind = "panic" THEN "panic" ELSE "parse"
           /\ output' =
                CASE r.err.kind = "panic" -> output
                  [] r.err.kind = "Error" ->
                       output \o <<Line("Eval error", r.err, ValueNull),
                                   Line("Eval result", ErrNil, r.val)>>
                  [] OTHER -> Append(output, Line("Eval result", ErrNil, r.val))
    /\ UNCHANGED <<given, input, parser, interpreter, expression>>
    /\ UNCHANGED lexVars

Init == LexStart /\ \E g \in Givens : HostStart(g)

Next == HostParse \/ HostEval

Spec == Init /\ [][Next]_vars

\* TestEval is one sequential loop: a ParseNext or an Eval that can be done
\* is done.  These are weak fairness of HostParse and of HostEval, written
\* out with the guard of the action, pc = "parse" and pc = "eval", for its
\* enabling condition.
FairParse == []<>(pc # "parse") \/ []<><<HostParse>>_vars

FairEval == []<>(pc # "eval") \/ []<><<HostEval>>_vars

FairSpec == Init /\ [][Next]_vars /\ FairParse /\ FairEval

\* newTokens, err := self.Lex.Consume(c[0]) for the next byte c of a stream
LexConsume(c) ==
    /\ Len(lex.Source) < MaxSrcLen
    /\ LET r == Consume(lex, c)
       IN  /\ lex' = r.lex
           /\ newTokens' = r.toks
           /\ lexErr' = r.err
    /\ prevLex' = lex
    /\ lastByte' = c
    /\ consumed' = Append(consumed, c)
    /\ UNCHANGED hostVars

InitLex == LexStart /\ HostStart(Given("raw", ValueNull, <<>>))

NextLex == \E c \in LexBytes : LexConsume(c)

SpecLex == InitLex /\ [][NextLex]_vars

(***************************************************************************)
(* Claims about the lexer, checked under SpecLex.                          *)
(***************************************************************************)
SingleCharBytes == {ByteLparen, ByteRparen, ByteDot, ByteQuote}

\* the one-byte token the last Consume created for its byte
NewOneByteToken == Token(Len(prevLex.Source), 1, TokenFromByte(lastByte))

\* the token that was being accumulated before the last Consume
PriorToken == prevLex.Tokens[Len(prevLex.Tokens)]

\* C1 as stated: in every lexer state, consuming one of ( ) . ' returns the
\* token in progress (if there is one) followed by the new one-byte token, or
\* the new one-byte token alone, and leaves the lexer Idle.
C1_EveryState ==
    lastByte \in SingleCharBytes =>
        /\ lex.state = "LexIdle"
        /\ newTokens =
             IF prevLex.state \in {"LexNumber", "LexIdentifier", "LexString",
                                   "LexStringEscaped"}
             THEN <<PriorToken, NewOneByteToken>>
             ELSE <<NewOneByteToken>>

\* C1 amended: the same, in the states Idle, Number and Identifier; inside a
\* string, after a backslash in a string and inside a comment the byte makes no
\* token and the lexer does not become Idle.
C1_SingleCharTokens ==
    lastByte \in SingleCharBytes =>
        IF prevLex.state \in {"LexIdle", "LexNumber", "LexIdentifier"}
        THEN /\ lex.state = "LexIdle"
             /\ lexErr = ErrNil
             /\ newTokens =
                  IF prevLex.state # "LexIdle"
                  THEN <<PriorToken, NewOneByteToken>>
                  ELSE <<NewOneByteToken>>
             /\ prevLex.state # "LexIdle" =>
                  PriorToken.Offset + PriorToken.Length = Len(prevLex.Source)
        ELSE /\ newTokens = <<>>
             /\ lex.state # "LexIdle"

C1_Witness ==
    /\ lastByte \in SingleCharBytes
    /\ prevLex.state = "LexNumber"
    /\ Len(newTokens) = 2
    /\ newTokens[1].Length = 2

\* The lexer after consuming bytes from its initial state.
RECURSIVE LexAfter(_)
LexAfter(bytes) ==
    IF bytes = <<>> THEN NewLex
    ELSE Consume(LexAfter(SubSeq(bytes, 1, Len(bytes) - 1)), bytes[Len(bytes)]).lex

IsLetter(c) ==
    (c >= ByteLowerA /\ c <= ByteLowerZ) \/ (c >= ByteUpperA /\ c <= ByteUpperZ)

\* a byte that extends an identifier: of the identifier class and not one of
\* the one-byte tokens
IsIdentifierByte(c) == IsAlphaNumeric(c) /\ ~IsSingleCharToken(c)

\* run is one or more digits, a letter, then identifier bytes
IsDigitsLetterRun(run) ==
    \E d \in 1..(Len(run) - 1) :
        /\ \A i \in 1..d : IsNumeric(run[i])
        /\ IsLetter(run[d + 1])
        /\ \A i \in (d + 2)..Len(run) : IsIdentifierByte(run[i])

\* source, from offset k on, is such a run that begins a token
RunStartsAt(source, k) ==
    /\ IsDigitsLetterRun(SubSeq(source, k + 1, Len(source)))
    /\ LexAfter(SubSeq(source, 1, k)).state = "LexIdle"

\* C2: a run of digits, a letter and further identifier bytes is one token of
\* kind Identifier that starts at the first digit and spans the whole run:
\* while the run is the end of the source it is the token in progress, and the
\* byte that ends the run hands out that token and no other before it.
C2_DigitsThenLetter ==
    /\ \A k \in 0..Len(lex.Source) :
          RunStartsAt(lex.Source, k) =>
              /\ lex.state \in {"LexNumber", "LexIdentifier"}
              /\ newTokens = <<>>
              /\ LastToken(lex) = Token(k, Len(lex.Source) - k, "TokIdentifier")
    /\ \A k \in 0..Len(prevLex.Source) :
          (RunStartsAt(prevLex.Source, k) /\ ~IsIdentifierByte(lastByte)) =>
              /\ newTokens # <<>> =>
                   newTokens[1] = Token(k, Len(prevLex.Source) - k, "TokIdentifier")
              /\ (IsWhitespace(lastByte) \/ IsSingleCharToken(lastByte)
                      \/ lastByte = ByteSemicolon) => newTokens # <<>>

C2_Witness ==
    /\ RunStartsAt(prevLex.Source, 1)
    /\ lastByte = ByteSpace
    /\ newTokens = <<Token(1, 2, "TokIdentifier")>>

\* Line and column of offset by the rule itself: a line break is a CR, or an
\* LF that does not follow a CR; the column counts the characters from the
\* byte after the last CR or LF before offset.
RefLine(source, offset) ==
    1 + Cardinality({i \in 1..offset :
            \/ source[i] = ByteCR
            \/ source[i] = ByteLF /\ ~(i > 1 /\ source[i - 1] = ByteCR)})

\* where the code points of source begin, from index i on
RECURSIVE RuneStarts(_, _)
RuneStarts(source, i) ==
    IF i > Len(source) THEN {}
    ELSE {i} \cup RuneStarts(source, i + RuneWidth(source, i))

\* one more than the number of characters (code points) between the last line
\* break and the byte at offset
RefColumn(source, offset) ==
    LET breaks == {i \in 1..offset : source[i] \in {ByteCR, ByteLF}}
        lastBreak == IF breaks = {} THEN 0
                     ELSE CHOOSE i \in breaks : \A j \in breaks : j <= i
    IN  1 + Cardinality({i \in RuneStarts(source, 1) :
                             i > lastBreak /\ i + RuneWidth(source, i) - 1 <= offset})

\* C10 as stated: NewError reports the 1-based line and column of offset,
\* CR+LF counting as one line break; so does every lex error.
C10_LineAndColumn ==
    /\ \A offset \in 0..Len(lex.Source) :
          LET e == NewError(lex.Source, offset, NoText)
          IN  /\ e.LineNumber = RefLine(lex.Source, offset)
              /\ e.OffsetInLine = RefColumn(lex.Source, offset)
    /\ lexErr.kind = "Error" =>
          /\ lexErr.LineNumber = RefLine(prevLex.Source, Len(prevLex.Source))
          /\ lexErr.OffsetInLine = RefColumn(prevLex.Source, Len(prevLex.Source))

\* What holds of NewError: in a source without CR, an offset at which a
\* character begins (or the end of the source) is reported at its line and at
\* its column counted in characters, a character of several bytes counting
\* once.
LineAndColumnWithoutCR ==
    (\A i \in 1..Len(lex.Source) : lex.Source[i] # ByteCR) =>
        \A offset \in 0..Len(lex.Source) :
            (offset = Len(lex.Source) \/ offset + 1 \in RuneStarts(lex.Source, 1)) =>
                LET e == NewError(lex.Source, offset, NoText)
                IN  /\ e.LineNumber = RefLine(lex.Source, offset)
                    /\ e.OffsetInLine = RefColumn(lex.Source, offset)

\* C3 A9 and a control byte: the error for the control byte, at offset 2, is
\* reported at column 2
CharacterColumnReached ==
    /\ lex.Source = <<ByteLead, ByteCont, ByteCtl>>
    /\ lexErr.kind = "Error"
    /\ lexErr.LineNumber = 1
    /\ lexErr.OffsetInLine = 2

\* An offset inside a character is never met by the loop, which then runs to
\* the end of the source: offset 1 of C3 A9 LF 1 is reported at line 2,
\* column 2.
OffsetInsideCharacter ==
    lex.Source = <<ByteLead, ByteCont, ByteLF, ByteOne>> =>
        /\ NewError(lex.Source, 1, NoText).LineNumber = 2
        /\ NewError(lex.Source, 1, NoText).OffsetInLine = 2

(***************************************************************************)
(* Claims about the parser and the evaluator, checked under Spec.          *)
(***************************************************************************)
\* v with every Token cleared: its variants, symbols, numbers and shape
RECURSIVE Strip(_)
Strip(v) ==
    IF v = Nil THEN Nil
    ELSE [v EXCEPT !.Token = TokenInvalid,
                   !.PairLeft = Strip(v.PairLeft),
                   !.PairRight = Strip(v.PairRight)]

\* the left children along v's right spine, and the value the spine ends in
RECURSIVE SpineLefts(_)
SpineLefts(v) ==
    IF v = Nil \/ v.Type # "ValPair" THEN <<>>
    ELSE <<v.PairLeft>> \o SpineLefts(v.PairRight)

RECURSIVE SpineEnd(_)
SpineEnd(v) ==
    IF v = Nil \/ v.Type # "ValPair" THEN v ELSE SpineEnd(v.PairRight)

IsProperList(v) == SpineEnd(v).Type = "ValNull"

IsDottedList(v) == v.Type = "ValPair" /\ SpineEnd(v).Type \notin {"ValNull", "ValPair"}

\* no ParseNext has failed or panicked so far
NoParseFailure ==
    /\ pc # "panic"
    /\ \A i \in 1..Len(output) : output[i].kind # "Parsing error"

\* the loop has come back from evaluating `expression`
Evaluated ==
    /\ pc = "parse"
    /\ Len(output) > 0
    /\ output[Len(output)].kind = "Eval result"

\* C3: the text of a proper list of n elements parses to Null when n = 0 and
\* otherwise to a chain of n Pairs holding the elements in source order, its
\* right spine ending in Null.
C3_ProperList ==
    (given.form = "plain" /\ IsProperList(given.expr)) =>
        /\ NoParseFailure
        /\ pc = "done" => Len(output) > 0
        /\ pc = "eval" =>
             /\ Strip(expression) = given.expr
             /\ Len(SpineLefts(expression)) = Len(SpineLefts(given.expr))
             /\ \A i \in 1..Len(SpineLefts(expression)) :
                   Strip(SpineLefts(expression)[i]) = SpineLefts(given.expr)[i]
             /\ SpineEnd(expression).Type = "ValNull"
             /\ SpineLefts(given.expr) = <<>> => expression.Type = "ValNull"

C3_Witness ==
    /\ given.form = "plain"
    /\ IsProperList(given.expr)
    /\ pc = "eval"
    /\ Len(SpineLefts(expression)) = 3
    /\ SpineLefts(expression)[2].Type = "ValPair"

\* C4: the text (e1 ... en . t), n >= 1, parses to a chain of n Pairs whose
\* last Pair has the value of t itself as its right child.
C4_DottedList ==
    (given.form = "plain" /\ IsDottedList(given.expr)) =>
        /\ NoParseFailure
        /\ pc = "done" => Len(output) > 0
        /\ pc = "eval" =>
             /\ Strip(expression) = given.expr
             /\ Len(SpineLefts(expression)) = Len(SpineLefts(given.expr))
             /\ Strip(SpineEnd(expression)) = SpineEnd(given.expr)
             /\ SpineEnd(expression).Type \notin {"ValPair", "ValNull"}

C4_Witness ==
    /\ given.form = "plain"
    /\ IsDottedList(given.expr)
    /\ pc = "eval"
    /\ Len(SpineLefts(expression)) = 2
    /\ SpineEnd(expression).Type = "ValNumber"

\* what parsing the text of e from a fresh parser returns
ParseOfText(e) == ParseNext(NewPars, Text(e) \o <<ByteLF>>)

\* C5: 'E parses to the tree (quote E) parses to, Tokens aside:
\* Pair(Symbol quote, Pair(E, Null)).
C5_QuoteSugar ==
    given.form = "sugar" =>
        /\ NoParseFailure
        /\ pc = "done" => Len(output) > 0
        /\ pc = "eval" =>
             /\ ParseOfText(QuoteForm(given.expr)).err = ErrNil
             /\ Strip(expression) = Strip(ParseOfText(QuoteForm(given.expr)).val)
             /\ Strip(expression) =
                  NewNode(Sym(NameQuote), NewNode(given.expr, ValueNull))

C5_Witness ==
    /\ given.form = "sugar"
    /\ pc = "eval"
    /\ given.expr.Type = "ValPair"
    /\ expression.PairLeft.Token.Type = "TokQuote"

\* the decimal digits of x + y + c, for strings of decimal digits x and y
RECURSIVE DecAdd(_, _, _)
DecAdd(x, y, c) ==
    IF x = <<>> /\ y = <<>>
    THEN IF c = 0 THEN <<>> ELSE <<ByteZero + c>>
    ELSE LET dx == IF x = <<>> THEN 0 ELSE x[Len(x)] - ByteZero
             dy == IF y = <<>> THEN 0 ELSE y[Len(y)] - ByteZero
         IN  DecAdd(SubSeq(x, 1, Len(x) - 1), SubSeq(y, 1, Len(y) - 1),
                    (dx + dy + c) \div 10)
             \o <<ByteZero + ((dx + dy + c) % 10)>>

RECURSIVE DecSum(_)
DecSum(ds) ==
    IF ds = <<>> THEN <<ByteZero>>
    ELSE IF Len(ds) = 1 THEN ds[1]
    ELSE DecAdd(ds[1], DecSum(Tail(ds)), 0)

IsPlusApplication(e) ==
    /\ e.Type = "ValPair"
    /\ IsProperList(e)
    /\ Strip(e.PairLeft) = Sym(NamePlus)

\* a Number literal, or an application of + to such terms
RECURSIVE IsPlusTerm(_)
IsPlusTerm(e) ==
    \/ e.Type = "ValNumber"
    \/ /\ IsPlusApplication(e)
       /\ \A i \in 2..Len(SpineLefts(e)) : IsPlusTerm(SpineLefts(e)[i])

\* the sum a term denotes, in decimal digits: the sum of the integers, of
\* whatever size
RECURSIVE RefSum(_)
RefSum(e) ==
    IF e.Type = "ValNumber" THEN Itoa(e.Number)
    ELSE DecSum([i \in 1..(Len(SpineLefts(e)) - 1) |-> RefSum(SpineLefts(e)[i + 1])])

\* the sum fits the machine integer
SumInRange(e) == AtoiInRange(RefSum(e))

\* the one line printed is the result, a Number whose digits are ds
PrintsNumber(ds) ==
    /\ Len(output) = 1
    /\ output[1] = Line("Eval result", ErrNil, NumOf(output[1].value.Number))
    /\ Itoa(output[1].value.Number) = ds

\* C6 as stated: an application of + to Number literals and nested +
\* applications evaluates, without error, to the Number that is their integer
\* sum.
C6_PlusSums ==
    (given.form = "plain" /\ IsPlusApplication(given.expr) /\ IsPlusTerm(given.expr)) =>
        /\ NoParseFailure
        /\ Len(output) > 0 => PrintsNumber(RefSum(given.expr))
        /\ pc = "done" => Len(output) = 1

\* What holds of such an application: it evaluates without error to a Number,
\* which is the sum when the sum is at most math.MaxInt64 and a negative
\* Number, the sum wrapped around, when it is larger.
PlusSumsWrapped ==
    (given.form = "plain" /\ IsPlusApplication(given.expr) /\ IsPlusTerm(given.expr)) =>
        /\ NoParseFailure
        /\ Len(output) > 0 =>
             IF SumInRange(given.expr)
             THEN PrintsNumber(RefSum(given.expr))
             ELSE /\ PrintsNumber(Itoa(output[1].value.Number))
                  /\ IntIsNegative(output[1].value.Number)
        /\ pc = "done" => Len(output) = 1

\* (+ 40 (+ 1 2)) was evaluated to 43
PlusSumsNested ==
    /\ given.form = "plain"
    /\ IsPlusApplication(given.expr) /\ IsPlusTerm(given.expr)
    /\ Len(SpineLefts(given.expr)) = 3
    /\ SpineLefts(given.expr)[3].Type = "ValPair"
    /\ Evaluated
    /\ result = Num(43)

\* (+ 9223372036854775807 1) was evaluated to math.MinInt64
C6_Witness ==
    /\ given.form = "plain"
    /\ given.expr = ProperList(<<Sym(NamePlus), NumOf(MaxInt), Num(1)>>)
    /\ Evaluated
    /\ result = NumOf(MinInt)
    /\ Itoa(result.Number) = <<ByteMinus>> \o RefSum(given.expr)

IsLiteral(e) == e.Type \in {"ValNumber", "ValString", "ValBool", "ValNull"}

\* + applied to literals, one of them at least not a Number
IsPlusOfNonNumber(e) ==
    /\ IsPlusApplication(e)
    /\ \A i \in 2..Len(SpineLefts(e)) : IsLiteral(SpineLefts(e)[i])
    /\ \E i \in 2..Len(SpineLefts(e)) : SpineLefts(e)[i].Type # "ValNumber"

FirstNonNumber(e) ==
    LET args == SpineLefts(e)
        i == CHOOSE j \in 2..Len(args) :
                 /\ args[j].Type # "ValNumber"
                 /\ \A k \in 2..(j - 1) : args[k].Type = "ValNumber"
    IN  args[i]

\* C7 as stated: + applied to a chain with an element that is not a Number
\* fails with an error that names that element's type, and returns no Number.
C7_ErrorNamesElementType ==
    (given.form = "plain" /\ IsPlusOfNonNumber(given.expr) /\ Len(output) > 0) =>
        /\ output[1].kind = "Eval error"
        /\ output[1].err.Text.type = FirstNonNumber(given.expr).Type
        /\ output[2].value.Type # "ValNumber"

IsQuoteForm(e) ==
    /\ e.Type = "ValPair"
    /\ IsProperList(e)
    /\ Len(SpineLefts(e)) = 2
    /\ SpineLefts(e)[1] = Sym(NameQuote)

\* C8 as stated: evaluating (quote E) or 'E yields the tree of E itself.
C8_QuoteReturnsArgument ==
    /\ (given.form = "sugar" /\ Len(output) > 0) =>
          /\ output[1].kind = "Eval result"
          /\ Strip(output[1].value) = given.expr
    /\ (given.form = "plain" /\ IsQuoteForm(given.expr) /\ Len(output) > 0) =>
          /\ output[1].kind = "Eval result"
          /\ Strip(output[1].value) = SpineLefts(given.expr)[2]

\* the Symbol nodes of a tree
RECURSIVE SymbolNodes(_)
SymbolNodes(v) ==
    IF v = Nil THEN {}
    ELSE IF v.Type = "ValSymbol" THEN {v}
    ELSE IF v.Type = "ValPair"
    THEN SymbolNodes(v.PairLeft) \cup SymbolNodes(v.PairRight)
    ELSE {}

\* the source spells the symbol's name at the symbol's token
SpelledAtToken(source, v) ==
    /\ v.Token.Type = "TokIdentifier"
    /\ v.Token.Offset + v.Token.Length <= Len(source)
    /\ SubSeq(source, v.Token.Offset + 1, v.Token.Offset + v.Token.Length) = v.Symbol

\* e is the "Unbound variable" error for the Symbol v, at v's own token
IsUnboundErrorFor(e, source, v) ==
    /\ e.kind = "Error"
    /\ e.Text.msg = "Unbound variable"
    /\ e.Text.symbol = v.Symbol
    /\ SpelledAtToken(source, v)
    /\ LET at == NewError(source, v.Token.Offset, NoText)
       IN  e.LineNumber = at.LineNumber /\ e.OffsetInLine = at.OffsetInLine

\* C9: a Symbol that is a key of the table evaluates to the table's Value; one
\* that is not yields Null and an "Unbound variable" error placed at the
\* symbol's own token, also when the symbol sits inside the expression.
C9_UnboundVariable ==
    /\ (Evaluated /\ expression.Type = "ValSymbol") =>
          IF expression.Symbol \in DOMAIN interpreter.Table
          THEN /\ err = ErrNil
               /\ result = interpreter.Table[expression.Symbol]
          ELSE /\ result = ValueNull
               /\ IsUnboundErrorFor(err, parser.Lex.Source, expression)
               /\ output[Len(output) - 1] = Line("Eval error", err, ValueNull)
    /\ (Evaluated /\ err.kind = "Error" /\ err.Text.msg = "Unbound variable") =>
          /\ result = ValueNull
          /\ \E v \in SymbolNodes(expression) :
                /\ v.Symbol \notin DOMAIN interpreter.Table
                /\ IsUnboundErrorFor(err, parser.Lex.Source, v)

C9_Witness ==
    /\ Evaluated
    /\ expression.Type = "ValSymbol"
    /\ expression.Symbol \notin DOMAIN interpreter.Table
    /\ expression.Token.Offset > 0
    /\ err.LineNumber = 2
    /\ err.OffsetInLine = 1

\* the interpreter as Eval sees it: Source points to the parser's source
CurrentInterp == NewInterp(parser.Lex.Source, interpreter.Table)

WrongTypeText == ErrorText("Wrong type to apply", -1, "", TokenInvalid, <<>>)

\* C11: evaluating a Pair evaluates its head first, so an error of the head
\* is the Pair's error whatever the arguments are; when the head's value is
\* not a Procedure the Pair fails with "Wrong type to apply" and Null, also
\* when an argument would fail if it were evaluated.
C11_WrongTypeToApply ==
    (Evaluated /\ expression.Type = "ValPair") =>
        LET head == Eval(CurrentInterp, expression.PairLeft)
        IN  /\ head.err # ErrNil => (err = head.err /\ result = ValueNull)
            /\ (head.err = ErrNil /\ head.val.Type # "ValProc") =>
                  /\ result = ValueNull
                  /\ err = NewError(parser.Lex.Source, expression.Token.Offset,
                                    WrongTypeText)
                  /\ output[Len(output) - 1] = Line("Eval error", err, ValueNull)

C11_Witness ==
    /\ Evaluated
    /\ Strip(expression) = ProperList(<<Num(1), Sym(NameA)>>)
    /\ err.kind = "Error"
    /\ err.Text.msg = "Wrong type to apply"
    /\ Eval(CurrentInterp, expression.PairRight.PairLeft).err.Text.msg
           = "Unbound variable"

\* the first index of a sequence of results whose result is an error
FirstFailure(rs) ==
    CHOOSE i \in 1..Len(rs) :
        /\ rs[i].err # ErrNil
        /\ \A j \in 1..(i - 1) : rs[j].err = ErrNil

\* C12: for an argument list e1 ... en with tail t (Null for a proper list),
\* EvalRight returns the chain of n new Pairs that hold the values of e1 ... en
\* in that order and ends in the value of t; when some of them fail, its error
\* is the error of the leftmost one that fails.  The chain is what the
\* procedure is called with: quote hands it back as the result.
C12_EvalRightInOrder ==
    (Evaluated /\ expression.Type = "ValPair"
       /\ Eval(CurrentInterp, expression.PairLeft).err = ErrNil
       /\ Eval(CurrentInterp, expression.PairLeft).val.Type = "ValProc") =>
        LET proc == Eval(CurrentInterp, expression.PairLeft).val.Proc
            args == SpineLefts(expression.PairRight)
            items == Append(args, SpineEnd(expression.PairRight))
            vals == [i \in 1..Len(items) |-> Eval(CurrentInterp, items[i])]
            chain == LinkChain([i \in 1..Len(args) |-> vals[i].val],
                               vals[Len(items)].val)
            right == EvalRight(CurrentInterp, expression.PairRight)
        IN  IF \E i \in 1..Len(items) : vals[i].err # ErrNil
            THEN /\ right.err = vals[FirstFailure(vals)].err
                 /\ err = right.err
                 /\ result = ValueNull
            ELSE /\ right = ValResult(chain, ErrNil)
                 /\ Len(SpineLefts(right.val)) = Len(args)
                 /\ proc = "quoteFn" => (result = chain /\ err = ErrNil)
                 /\ ValResult(result, err) = CallProc(proc, chain, CurrentInterp)

C12_Witness ==
    /\ Evaluated
    /\ Strip(expression) = ListWithTail(<<Sym(NameQuote), Num(2), Num(1)>>, Num(2))
    /\ err = ErrNil
    /\ Strip(result) = ListWithTail(<<Num(2), Num(1)>>, Num(2))

SelfEvaluatingTypes == {"ValNumber", "ValString", "ValBool", "ValNull", "ValProc"}

\* the nodes of a tree
RECURSIVE Nodes(_)
Nodes(v) ==
    IF v = Nil THEN {}
    ELSE IF v.Type = "ValPair"
    THEN {v} \cup Nodes(v.PairLeft) \cup Nodes(v.PairRight)
    ELSE {v}

\* procedure tables: none, one procedure, TestEval's
Tables ==
    {[n \in D |-> TestEvalTable[n]] : D \in SUBSET (DOMAIN TestEvalTable)}

\* C13: Eval of a Number, String, Boolean, Null or Procedure value is that
\* value and no error, whatever the table holds: for the expression the
\* loop evaluated, and for every such node of a parsed tree and every
\* Procedure of the table under each table.
C13_SelfEvaluating ==
    /\ (Evaluated /\ expression.Type \in SelfEvaluatingTypes) =>
          /\ result = expression
          /\ err = ErrNil
          /\ output[Len(output)] = Line("Eval result", ErrNil, expression)
          /\ Len(output) > 1 => output[Len(output) - 1].kind # "Eval error"
    /\ pc = "eval" =>
          \A t \in Tables :
              \A v \in Nodes(expression) \cup {TestEvalTable[n] : n \in DOMAIN TestEvalTable} :
                  v.Type \in SelfEvaluatingTypes =>
                      Eval(NewInterp(parser.Lex.Source, t), v) = ValResult(v, ErrNil)

C13_Witness ==
    /\ Evaluated
    /\ expression.Type = "ValString"
    /\ expression.Token.Length = 3
    /\ result = expression

\* the parsed expression laid out in an empty memory, with the table
StoredExpression ==
    StoreTree([nodes |-> <<>>, table |-> interpreter.Table], expression)

\* interpreter.Eval(expression) run on that memory
EvalOfStored ==
    EvalMem(StoredExpression.mem, parser.Lex.Source,
            StoredExpression.mem.nodes[StoredExpression.addr])

\* the addresses that can be reached from addr
RECURSIVE Reachable(_, _)
Reachable(nodes, addr) ==
    IF addr = NilAddr THEN {}
    ELSE {addr} \cup Reachable(nodes, nodes[addr].PairLeft)
                \cup Reachable(nodes, nodes[addr].PairRight)

\* C14: evaluating a parsed expression stores nothing into the nodes of its
\* tree nor into the table: after the call, failed or not, every node the
\* tree had is what it was and the tree reads as before, the table is the
\* one TestEval set up, and every Pair of the result lies in a node made
\* during the call.  The memory run returns what Eval returns.
C14_InputsUnchanged ==
    (pc = "eval" \/ Evaluated) =>
        LET before == StoredExpression.mem
            r == EvalOfStored
            new == {a \in 1..Len(r.mem.nodes) : a > Len(before.nodes)}
        IN  /\ SubSeq(r.mem.nodes, 1, Len(before.nodes)) = before.nodes
            /\ LoadTree(r.mem.nodes, StoredExpression.addr) = expression
            /\ r.mem.table = interpreter.Table
            /\ interpreter.Table = TestEvalTable
            /\ \A a \in Reachable(r.mem.nodes, r.val.PairLeft)
                          \cup Reachable(r.mem.nodes, r.val.PairRight) :
                   r.mem.nodes[a].Type = "ValPair" => a \in new
            /\ ValResult(LoadValue(r.mem.nodes, r.val), r.err)
                   = Eval(CurrentInterp, expression)
            /\ Evaluated =>
                   (result = LoadValue(r.mem.nodes, r.val) /\ err = r.err)

C14_Witness ==
    /\ Evaluated
    /\ Strip(expression.PairLeft) = Sym(NameQuote)
    /\ result.Type = "ValPair"
    /\ Len(SpineLefts(result)) = 2
    /\ Len(EvalOfStored.mem.nodes) > Len(StoredExpression.mem.nodes) + 4
    /\ LoadTree(EvalOfStored.mem.nodes, StoredExpression.addr) = expression

\* the bytes the lexer's grammar has a use for in each state
AcceptedIn(state, c) ==
    CASE state \in {"LexIdle", "LexNumber", "LexIdentifier"} ->
           \/ IsSingleCharToken(c) \/ IsWhitespace(c) \/ IsAlphaNumeric(c)
           \/ c = ByteDQuote \/ c = ByteSemicolon
      [] state = "LexComment" -> c = ByteLF \/ c = ByteCR \/ IsCommentCharacter(c)
      [] state \in {"LexString", "LexStringEscaped"} -> IsStringCharacter(c)

\* C15: in every state, Consume of a byte the state has no use for returns
\* the "unexpected byte" error that carries the byte, as a character when it
\* is printable and as a hex code otherwise, at the line and column of the
\* offset the byte itself gets in the source; any other byte gives no error.
C15_UnexpectedByte ==
    lastByte \in AllBytes =>
        IF AcceptedIn(prevLex.state, lastByte)
        THEN lexErr = ErrNil
        ELSE /\ lexErr.kind = "Error"
             /\ lexErr.Text.msg = "unexpected byte"
             /\ lexErr.Text.byte = lastByte
             /\ lexErr.Text.type = IF lastByte >= ByteSpace /\ lastByte <= ByteTilde
                                   THEN "%c" ELSE "0x%X"
             /\ lex.Source[Len(prevLex.Source) + 1] = lastByte
             /\ LET at == NewError(lex.Source, Len(prevLex.Source), NoText)
                IN  /\ lexErr.LineNumber = at.LineNumber
                    /\ lexErr.OffsetInLine = at.OffsetInLine

C15_Witness ==
    /\ prevLex.state = "LexString"
    /\ lastByte = ByteCtl
    /\ lexErr.kind = "Error"
    /\ lexErr.LineNumber = 2
    /\ lexErr.OffsetInLine = 2

\* the first error Consume returns when lexer is fed bytes, if any
RECURSIVE FirstLexError(_, _)
FirstLexError(lexer, bytes) ==
    IF bytes = <<>> THEN ErrNil
    ELSE IF Consume(lexer, Head(bytes)).err # ErrNil
    THEN Consume(lexer, Head(bytes)).err
    ELSE FirstLexError(Consume(lexer, Head(bytes)).lex, Tail(bytes))

\* Eval of the Pair p returns the error of its head, or of the leftmost
\* argument that fails when the head is a Procedure, and Null with it
PairReturnsFirstError(interp, p) ==
    LET head == Eval(interp, p.PairLeft)
        items == Append(SpineLefts(p.PairRight), SpineEnd(p.PairRight))
        vals == [i \in 1..Len(items) |-> Eval(interp, items[i])]
    IN  /\ head.err # ErrNil => Eval(interp, p) = ValResult(ValueNull, head.err)
        /\ (head.err = ErrNil /\ head.val.Type = "ValProc"
              /\ \E i \in 1..Len(items) : vals[i].err # ErrNil) =>
               Eval(interp, p) = ValResult(ValueNull, vals[FirstFailure(vals)].err)

\* C16: when a Consume fails among the bytes a ParseNext reads, ParseNext
\* returns that error and the loop prints it; when the head or an argument of
\* a Pair fails, Eval of the Pair returns that error and Null, for every Pair
\* of the expression and so for every Pair around a failing one, and the loop
\* has that error as the result of its Eval.
C16_ErrorsPropagate ==
    [][/\ pc = "parse" =>
            LET e == FirstLexError(parser.Lex,
                                   SubSeq(input, 1, Len(input) - Len(input')))
            IN  e # ErrNil =>
                  /\ err' = e
                  /\ pc' = "parse"
                  /\ output' = Append(output, Line("Parsing error", e, ValueNull))
       /\ pc = "eval" =>
            /\ \A p \in Nodes(expression) :
                  p.Type = "ValPair" => PairReturnsFirstError(CurrentInterp, p)
            /\ ValResult(result', err') = Eval(CurrentInterp, expression)
            /\ err'.kind = "Error" =>
                  /\ result' = ValueNull
                  /\ output'[Len(output) + 1] = Line("Eval error", err', ValueNull)
      ]_vars

C16_Witness ==
    /\ Evaluated
    /\ Strip(expression) =
          ProperList(<<Sym(NamePlus), Num(40), ListWithTail(<<Num(1)>>, Num(2))>>)
    /\ err.kind = "Error"
    /\ err = Eval(CurrentInterp, SpineLefts(expression)[3]).err
    /\ result = ValueNull

\* C17: when ParseNext returns an error that is not the end of the input,
\* the loop prints it and is back before ParseNext, with the parser's source
\* holding the bytes read so far and the bytes not read yet still to come; the
\* loop is only ever left after ParseNext returned the end of the input.
C17_LoopContinues ==
    /\ [][(pc = "parse" /\ err'.kind = "Error") =>
            /\ pc' = "parse"
            /\ output' = Append(output, Line("Parsing error", err', ValueNull))
            /\ Len(input') <= Len(input)
            /\ input' = SubSeq(input, Len(input) - Len(input') + 1, Len(input))
            /\ parser'.Lex.Source \o input' = given.bytes
          ]_vars
    /\ [](pc \notin {"parse", "eval"} =>
            (pc = "done" /\ err = ErrEOF /\ input = <<>>))

C17_Witness ==
    /\ given.bytes = <<ByteRparen, ByteOne, ByteSpace>>
    /\ Len(output) = 2
    /\ output[1].kind = "Parsing error"
    /\ output[1].err.Text.msg = "Unexpected token"
    /\ output[2] = Line("Eval result", ErrNil, result)
    /\ result.Number = GoInt(1)
    /\ pc = "done"

\* C18 as stated: for an expression it evaluates the loop prints one line,
\* the result or the error, never an error line and a result line.
C18_ResultOrError ==
    [][pc = "eval" =>
         /\ Len(output') = Len(output) + 1
         /\ output'[Len(output')].kind =
               IF err' = ErrNil THEN "Eval result" ELSE "Eval error"
      ]_vars

\* the follower the input of an unclosed list was written with
GivenFollower ==
    CHOOSE f \in Followers :
        SubSeq(given.bytes, Len(Unclosed(given.expr)) + 1,
               Len(Unclosed(given.expr)) + Len(f.bytes)) = f.bytes

\* C19: for (h . t followed by a token that is not the closing paren, the
\* first ParseNext fails with "Unexpected token" for that very token, at the
\* line and column of the token's offset, the tail t having been parsed whole;
\* the list never reaches Eval.
C19_DottedTailMustClose ==
    given.form = "unclosed" =>
        LET off == Len(Unclosed(given.expr))
            f == GivenFollower
        IN  /\ pc \in {"parse", "done"}
            /\ pc = "done" => Len(output) > 0
            /\ \A i \in 1..Len(output) : output[i].kind = "Parsing error"
            /\ Len(output) > 0 =>
                  output[1].err =
                      NewError(given.bytes, off,
                               ErrorText("Unexpected token", -1, "",
                                         Token(off, f.length, f.type), <<>>))

C19_Witness ==
    /\ given.form = "unclosed"
    /\ given.expr.PairRight.Type = "ValPair"
    /\ GivenFollower.type = "TokNumber"
    /\ pc = "done"
    /\ output[1].err.Text.token.Offset = Len(Unclosed(given.expr))
    /\ output[1].err.OffsetInLine = Len(Unclosed(given.expr)) + 1

\* what the source spells at the token of the node v
SpelledAt(source, v) ==
    SubSeq(source, v.Token.Offset + 1, v.Token.Offset + v.Token.Length)

\* C20: an Identifier token spelled #t or #f becomes the Boolean true or
\* false, wherever it stands in the expression, so no Symbol is ever named
\* #t or #f; a Boolean evaluates to itself under every table, the empty one
\* included, and the loop prints it as the result.
C20_BooleanLiterals ==
    /\ (pc = "eval" \/ Evaluated) =>
          \A v \in Nodes(expression) :
              /\ v.Type = "ValSymbol" => v.Symbol \notin {NameTrue, NameFalse}
              /\ (v.Token.Type = "TokIdentifier"
                    /\ SpelledAt(parser.Lex.Source, v) \in {NameTrue, NameFalse}) =>
                     /\ v.Type = "ValBool"
                     /\ v.Bool = (SpelledAt(parser.Lex.Source, v) = NameTrue)
              /\ v.Type = "ValBool" =>
                     /\ v.Token.Type = "TokIdentifier"
                     /\ SpelledAt(parser.Lex.Source, v)
                            = IF v.Bool THEN NameTrue ELSE NameFalse
                     /\ \A t \in Tables :
                            Eval(NewInterp(parser.Lex.Source, t), v)
                                = ValResult(v, ErrNil)
    /\ (given.form = "plain" /\ given.expr.Type = "ValBool") =>
          /\ NoParseFailure
          /\ pc = "eval" => Strip(expression) = given.expr
          /\ Evaluated =>
                (result = expression /\ err = ErrNil
                   /\ output = <<Line("Eval result", ErrNil, expression)>>)

C20_Witness ==
    /\ given.form = "plain"
    /\ given.expr = BoolV(FALSE)
    /\ Evaluated
    /\ result.Type = "ValBool"
    /\ result.Bool = FALSE
    /\ result.Token = Token(0, 2, "TokIdentifier")

\* the expression is (quote E) or 'E with E a Symbol the table does not have
QuotesUnboundSymbol ==
    /\ \/ given.form = "sugar"
       \/ given.form = "plain" /\ IsQuoteForm(given.expr)
    /\ SpineLefts(expression)[2].Type = "ValSymbol"
    /\ SpineLefts(expression)[2].Symbol \notin DOMAIN interpreter.Table

\* C21: the arguments of an application are evaluated before the procedure
\* is called, those of quote too: what any application returns is the error
\* of its argument list or what the procedure makes of the evaluated list,
\* and (quote x) and 'x with x not in the table fail with the "Unbound
\* variable" error of x and Null, quote not having been called.
C21_ArgumentsFirst ==
    (Evaluated /\ expression.Type = "ValPair"
       /\ Eval(CurrentInterp, expression.PairLeft).err = ErrNil
       /\ Eval(CurrentInterp, expression.PairLeft).val.Type = "ValProc") =>
        LET proc == Eval(CurrentInterp, expression.PairLeft).val.Proc
            right == EvalRight(CurrentInterp, expression.PairRight)
        IN  /\ right.err # ErrNil => (err = right.err /\ result = ValueNull)
            /\ right.err = ErrNil =>
                  ValResult(result, err) = CallProc(proc, right.val, CurrentInterp)
            /\ QuotesUnboundSymbol =>
                  /\ IsUnboundErrorFor(err, parser.Lex.Source, SpineLefts(expression)[2])
                  /\ result = ValueNull
                  /\ output = <<Line("Eval error", err, ValueNull),
                                Line("Eval result", ErrNil, ValueNull)>>

C21_Witness ==
    /\ given.form = "sugar"
    /\ given.expr = Sym(NameA)
    /\ Evaluated
    /\ QuotesUnboundSymbol
    /\ err.Text.msg = "Unbound variable"
    /\ err.Text.symbol = NameA
    /\ err.OffsetInLine = 2

(***************************************************************************)
(* Further claims about the lexer, checked under SpecLex.                  *)
(***************************************************************************)
\* C22 as stated: a double quote consumed while a Number or an Identifier is
\* in progress returns that token from the same Consume and opens a String
\* token at the quote.
C22_QuoteFlushesPrior ==
    (lastByte = ByteDQuote /\ prevLex.state \in {"LexNumber", "LexIdentifier"}) =>
        /\ newTokens = <<PriorToken>>
        /\ lex.state = "LexString"
        /\ LastToken(lex) = Token(Len(prevLex.Source), 1, "TokString")

\* the bytes C23 is about: white space and the comment start
ClosingBytes == {ByteSpace, ByteCR, ByteLF, ByteTab, ByteSemicolon}

\* the state a closing byte leaves a Number or an Identifier in
StateAfterClosing(c) == IF c = ByteSemicolon THEN "LexComment" ELSE "LexIdle"

\* C23 as stated: white space or ; consumed while a Number, an Identifier or a
\* String is in progress returns that token and leaves the accumulating state.
C23_ClosesAnyToken ==
    (lastByte \in ClosingBytes
       /\ prevLex.state \in {"LexNumber", "LexIdentifier", "LexString"}) =>
        /\ newTokens = <<PriorToken>>
        /\ lex.state = StateAfterClosing(lastByte)

\* C23: white space or ; consumed while a Number or an Identifier is in progress
\* returns that token, unchanged, without error, and the lexer goes to Idle
\* (white space) or to Comment (;); this holds for each of the five bytes in
\* every reachable Number or Identifier state.  While a String is in progress
\* the same bytes are string characters: the String grows by one, no token is
\* returned and the lexer is in LexString.
C23_ClosesNumberOrIdentifier ==
    /\ (lastByte \in ClosingBytes
          /\ prevLex.state \in {"LexNumber", "LexIdentifier"}) =>
           /\ newTokens = <<PriorToken>>
           /\ lexErr = ErrNil
           /\ lex.Tokens = prevLex.Tokens
           /\ lex.state = StateAfterClosing(lastByte)
    /\ lex.state \in {"LexNumber", "LexIdentifier"} =>
           \A c \in ClosingBytes :
               Consume(lex, c) =
                   LexResult([lex EXCEPT !.state = StateAfterClosing(c),
                                         !.Source = Append(lex.Source, c)],
                             <<LastToken(lex)>>, ErrNil)
    /\ (lastByte \in ClosingBytes
          /\ prevLex.state \in {"LexString", "LexStringEscaped"}) =>
           /\ newTokens = <<>>
           /\ lexErr = ErrNil
           /\ lex.Tokens = ExtendLastToken(prevLex).Tokens
           /\ lex.state = "LexString"

\* `1` then a space: the Number is returned and the lexer is idle
C23_Witness ==
    /\ lastByte = ByteSpace
    /\ prevLex.state = "LexNumber"
    /\ newTokens = <<Token(0, 1, "TokNumber")>>
    /\ lex.state = "LexIdle"

\* the non-digit bytes C25 names: the letters and -!$%*+?&.\/~`:=<>^#
NonDigitIdentifierBytes ==
    {c \in ByteUpperA..ByteLowerZ : IsLetter(c)}
        \cup {ByteMinus, ByteBang, ByteDollar, BytePercent, ByteStar, BytePlus,
              ByteQuestion, ByteAmp, ByteDot, ByteBackslash, ByteSlash, ByteTilde,
              ByteBacktick, ByteColon, ByteEquals, ByteLess, ByteGreater,
              ByteCaret, ByteHash}

\* lex after its token in progress became an Identifier one byte longer and c
\* was written to the source
RetypedAndGrown(l, c) ==
    [l EXCEPT !.Tokens[Len(l.Tokens)] =
                  Token(LastToken(l).Offset, LastToken(l).Length + 1,
                        "TokIdentifier"),
              !.Source = Append(l.Source, c)]

\* C25 as stated: in LexNumber each of these bytes, the dot included, retypes
\* the token in progress to Identifier, grows it by one and returns no token.
C25_EveryNonDigitRetypes ==
    lex.state = "LexNumber" =>
        \A c \in NonDigitIdentifierBytes :
            Consume(lex, c) = LexResult(RetypedAndGrown(lex, c), <<>>, ErrNil)

\* C25: in LexNumber each of these bytes other than the dot retypes the token
\* in progress to Identifier, grows it by one and returns no token, the lexer
\* staying in LexNumber.  The dot is a one-byte token: it leaves the token in
\* progress as it is, returns it followed by a Dot token and the lexer is idle.
C25_NonDigitRetypes ==
    /\ lex.state = "LexNumber" =>
          /\ \A c \in NonDigitIdentifierBytes \ {ByteDot} :
                 Consume(lex, c) = LexResult(RetypedAndGrown(lex, c), <<>>, ErrNil)
          /\ Consume(lex, ByteDot) =
                 LexResult([lex EXCEPT !.state = "LexIdle",
                                       !.Tokens = Append(lex.Tokens,
                                                         Token(Len(lex.Source), 1, "TokDot")),
                                       !.Source = Append(lex.Source, ByteDot)],
                           <<LastToken(lex), Token(Len(lex.Source), 1, "TokDot")>>,
                           ErrNil)
    /\ (prevLex.state = "LexNumber"
          /\ lastByte \in NonDigitIdentifierBytes \ {ByteDot}) =>
          /\ newTokens = <<>>
          /\ lexErr = ErrNil
          /\ lex.state = "LexNumber"
          /\ LastToken(lex) =
                 Token(PriorToken.Offset, PriorToken.Length + 1, "TokIdentifier")

\* `1` then a backslash: the Number at 0 is now an Identifier of two bytes
C25_Witness ==
    /\ prevLex.state = "LexNumber"
    /\ PriorToken = Token(0, 1, "TokNumber")
    /\ lastByte = ByteBackslash
    /\ newTokens = <<>>
    /\ LastToken(lex) = Token(0, 2, "TokIdentifier")

\* the last Consume grew the token in progress by one and returned nothing
GrewByOne ==
    /\ newTokens = <<>>
    /\ lexErr = ErrNil
    /\ lex.Tokens = ExtendLastToken(prevLex).Tokens

\* C26: in LexString a backslash grows the String and puts the lexer in
\* LexStringEscaped; there every string character, the double quote and the
\* backslash included, grows the String, returns no token and puts the lexer
\* back in LexString.  A double quote consumed in LexString closes the String:
\* the lexer is idle and the one token returned is the String, from its
\* opening quote to this quote, the end of the source.  Without an error, a
\* String token is returned by no other Consume.
C26_StringEscape ==
    /\ (prevLex.state = "LexString" /\ lastByte = ByteBackslash) =>
          GrewByOne /\ lex.state = "LexStringEscaped"
    /\ (prevLex.state = "LexStringEscaped" /\ IsStringCharacter(lastByte)) =>
          GrewByOne /\ lex.state = "LexString"
    /\ lex.state = "LexStringEscaped" =>
          \A c \in {b \in AllBytes : IsStringCharacter(b)} :
              Consume(lex, c) =
                  LexResult([ExtendLastToken(lex) EXCEPT
                                 !.state = "LexString",
                                 !.Source = Append(lex.Source, c)],
                            <<>>, ErrNil)
    /\ (prevLex.state = "LexString" /\ lastByte = ByteDQuote) =>
          /\ lex.state = "LexIdle"
          /\ lexErr = ErrNil
          /\ lex.Tokens = ExtendLastToken(prevLex).Tokens
          /\ newTokens = <<LastToken(lex)>>
          /\ LastToken(lex).Type = "TokString"
          /\ LastToken(lex).Length >= 2
          /\ LastToken(lex).Offset + LastToken(lex).Length = Len(lex.Source)
          /\ lex.Source[LastToken(lex).Offset + 1] = ByteDQuote
          /\ LexAfter(SubSeq(lex.Source, 1, LastToken(lex).Offset)).state
                 \notin {"LexString", "LexStringEscaped"}
    /\ (lexErr = ErrNil
          /\ \E i \in 1..Len(newTokens) : newTokens[i].Type = "TokString") =>
          prevLex.state = "LexString" /\ lastByte = ByteDQuote

\* the four bytes "\"" : the quote after the backslash did not close the
\* String, the last one did
C26_Witness ==
    /\ lex.Source = <<ByteDQuote, ByteBackslash, ByteDQuote, ByteDQuote>>
    /\ prevLex.state = "LexString"
    /\ newTokens = <<Token(0, 4, "TokString")>>
    /\ lex.state = "LexIdle"

\* C27: in LexComment no byte value makes Consume create a token or return
\* one, whether the byte is accepted or not.  CR and LF put the lexer in
\* LexIdle without error; every other comment character, the parens, the dot,
\* the quotes, the digits and ; included, leaves it in LexComment.
C27_CommentHasNoTokens ==
    /\ lex.state = "LexComment" =>
          \A c \in AllBytes :
              LET r == Consume(lex, c)
              IN  /\ r.toks = <<>>
                  /\ r.lex.Tokens = lex.Tokens
                  /\ c \in {ByteCR, ByteLF} =>
                        r.err = ErrNil /\ r.lex.state = "LexIdle"
                  /\ (c \notin {ByteCR, ByteLF} /\ IsCommentCharacter(c)) =>
                        r.err = ErrNil /\ r.lex.state = "LexComment"
    /\ {ByteLparen, ByteRparen, ByteDot, ByteQuote, ByteDQuote, ByteSemicolon}
          \cup ByteZero..ByteNine \subseteq {c \in AllBytes : IsCommentCharacter(c)}
    /\ prevLex.state = "LexComment" =>
          /\ newTokens = <<>>
          /\ lex.Tokens = prevLex.Tokens
          /\ lastByte \in {ByteCR, ByteLF} => lexErr = ErrNil /\ lex.state = "LexIdle"
          /\ lastByte \in {ByteLparen, ByteRparen, ByteDot, ByteQuote, ByteDQuote,
                            ByteOne, ByteLowerA, ByteSemicolon, ByteSpace} =>
                lexErr = ErrNil /\ lex.state = "LexComment"

\* ; ( ' and a line feed: the comment is over and no token was ever made
C27_Witness ==
    /\ lex.Source = <<ByteSemicolon, ByteLparen, ByteQuote, ByteLF>>
    /\ prevLex.state = "LexComment"
    /\ lex.state = "LexIdle"
    /\ lex.Tokens = <<>>
    /\ newTokens = <<>>

\* C28: the source is the sequence of the bytes Consume was called with, in
\* order, after a call that returned an error as after any other, so its
\* length is the number of calls.  A call creates at most one token; that
\* token is one byte long, lies at the source length before the call, where
\* the byte now stands, and the tokens created earlier keep their offsets.
C28_SourceIsWhatWasConsumed ==
    /\ lex.Source = consumed
    /\ Len(lex.Source) = Len(consumed)
    /\ lastByte # -1 =>
          /\ lex.Source = Append(prevLex.Source, lastByte)
          /\ Len(lex.Tokens) \in {Len(prevLex.Tokens), Len(prevLex.Tokens) + 1}
          /\ \A i \in 1..Len(prevLex.Tokens) :
                 lex.Tokens[i].Offset = prevLex.Tokens[i].Offset
          /\ Len(lex.Tokens) = Len(prevLex.Tokens) + 1 =>
                 /\ LastToken(lex).Offset = Len(prevLex.Source)
                 /\ LastToken(lex).Length = 1
                 /\ lex.Source[LastToken(lex).Offset + 1] = lastByte

\* a control byte, 1, @: two of the three calls returned an error, the source
\* holds all three bytes and the Number begun by the second call is at 1
C28_Witness ==
    /\ consumed = <<ByteCtl, ByteOne, ByteAt>>
    /\ lexErr.kind = "Error"
    /\ lex.Source = <<ByteCtl, ByteOne, ByteAt>>
    /\ lex.Tokens = <<Token(1, 1, "TokNumber")>>

\* the place in lex.Tokens of the token that lies at offset
PlaceOf(offset) ==
    CHOOSE j \in 1..Len(lex.Tokens) : lex.Tokens[j].Offset = offset

\* the tokens of the lexer after the first n bytes of the source
TokensAfter(n) == LexAfter(SubSeq(lex.Source, 1, n)).Tokens

\* C29: every token Consume returns is a token of lex.Tokens and ends within
\* the source.  Replaying the source: the token did not exist before the byte
\* at its offset was consumed, that byte created it with length 1, each of
\* the following bytes up to offset + length grew it by one, and no byte
\* after them changed its length; so source[offset..offset+length] is the run
\* of bytes from the one that started it to the last that extended it.  Every
\* token of lex.Tokens, returned or not, ends within the source.
C29_TokenSpansItsBytes ==
    /\ \A i \in 1..Len(lex.Tokens) :
          /\ lex.Tokens[i].Length >= 1
          /\ lex.Tokens[i].Offset + lex.Tokens[i].Length <= Len(lex.Source)
    /\ \A i \in 1..Len(newTokens) :
          LET t == newTokens[i]
          IN  /\ t.Offset + t.Length <= Len(lex.Source)
              /\ \E j \in 1..Len(lex.Tokens) : lex.Tokens[j] = t
              /\ lex.Tokens[PlaceOf(t.Offset)] = t
              /\ Len(TokensAfter(t.Offset)) = PlaceOf(t.Offset) - 1
              /\ \A k \in 1..t.Length :
                     /\ Len(TokensAfter(t.Offset + k)) = PlaceOf(t.Offset)
                     /\ TokensAfter(t.Offset + k)[PlaceOf(t.Offset)].Offset = t.Offset
                     /\ TokensAfter(t.Offset + k)[PlaceOf(t.Offset)].Length = k
              /\ \A m \in (t.Offset + t.Length)..Len(lex.Source) :
                     TokensAfter(m)[PlaceOf(t.Offset)].Length = t.Length

\* 1a( : the paren returns the Identifier 1a, bytes 0 and 1, and itself
C29_Witness ==
    /\ lex.Source = <<ByteOne, ByteLowerA, ByteLparen>>
    /\ newTokens = <<Token(0, 2, "TokIdentifier"), Token(2, 1, "TokLparen")>>

(***************************************************************************)
(* Claims about lexer errors and token order, checked under SpecLex.       *)
(***************************************************************************)
\* bytes to probe a lexer state with: those the lexer is driven with, the tab,
\* and the two ends of each range of byte values no class of the lexer holds
ProbeBytes ==
    LexBytes \cup {0, ByteTab - 1, ByteTab, ByteLF + 1, ByteCR + 1, ByteSpace - 1,
                   BytePlus + 1, ByteUpperZ + 1, ByteBacktick - 1,
                   ByteLowerZ + 1, ByteTilde - 1, ByteTilde + 1, 255}

\* C35: a Consume that returns an error leaves the lexer in LexIdle, from
\* every reachable state; the byte consumed next then returns no token that
\* began before it, the token in progress when the error came included.
C35_IdleAfterError ==
    /\ \A c \in ProbeBytes :
          LET r == Consume(lex, c)
          IN  r.err # ErrNil => r.lex.state = "LexIdle"
    /\ lexErr # ErrNil =>
          /\ lex.state = "LexIdle"
          /\ \A c \in ProbeBytes :
                LET r == Consume(lex, c)
                IN  \A i \in 1..Len(r.toks) : r.toks[i].Offset = Len(lex.Source)

\* a String was in progress when a control byte came: error, and idle
C35_Witness ==
    /\ prevLex.state = "LexString"
    /\ lastByte = ByteCtl
    /\ lexErr.kind = "Error"
    /\ lex.state = "LexIdle"

\* the bytes of the source that the token t spans
Literal(source, t) == SubSeq(source, t.Offset + 1, t.Offset + t.Length)

\* s is made of the decimal digits 0 to 9 only
IsDigitString(s) == \A i \in 1..Len(s) : s[i] \in ByteZero..ByteNine

\* C38: every Number token, returned or still in progress, spans decimal
\* digits only.  A Consume leaves the type of every token as it was, except
\* that it may turn the Number in progress into an Identifier; an Identifier
\* stays one.  The value ValueFromToken makes of a Number token is a Number
\* that is not negative.  A token that starts with a minus sign is an
\* Identifier, and `-1` followed by a blank is returned as one Identifier of
\* two bytes.
C38_NumbersAreDigits ==
    /\ \A i \in 1..Len(lex.Tokens) :
          /\ lex.Tokens[i].Type = "TokNumber" =>
                /\ IsDigitString(Literal(lex.Source, lex.Tokens[i]))
                /\ ValueFromToken(lex, lex.Tokens[i]).err = ErrNil
                /\ ValueFromToken(lex, lex.Tokens[i]).val.Type = "ValNumber"
                /\ ~IntIsNegative(ValueFromToken(lex, lex.Tokens[i]).val.Number)
          /\ lex.Source[lex.Tokens[i].Offset + 1] = ByteMinus =>
                lex.Tokens[i].Type = "TokIdentifier"
    /\ \A i \in 1..Len(newTokens) :
          newTokens[i].Type = "TokNumber" =>
              IsDigitString(Literal(lex.Source, newTokens[i]))
    /\ \A i \in 1..Len(prevLex.Tokens) :
          \/ lex.Tokens[i].Type = prevLex.Tokens[i].Type
          \/ /\ i = Len(prevLex.Tokens)
             /\ prevLex.state = "LexNumber"
             /\ prevLex.Tokens[i].Type = "TokNumber"
             /\ lex.Tokens[i].Type = "TokIdentifier"
    /\ Consume(LexAfter(<<ByteMinus, ByteOne>>), ByteSpace).toks
          = <<Token(0, 2, "TokIdentifier")>>

\* `-1` and a blank: one Identifier of two bytes is returned
C38_Witness ==
    /\ lex.Source = <<ByteMinus, ByteOne, ByteSpace>>
    /\ newTokens = <<Token(0, 2, "TokIdentifier")>>
    /\ lex.Tokens = <<Token(0, 2, "TokIdentifier")>>

\* the tokens returned, in order, by the Consume calls for bytes, one after
\* the other from the initial lexer
RECURSIVE ReturnedBy(_)
ReturnedBy(bytes) ==
    IF bytes = <<>> THEN <<>>
    ELSE ReturnedBy(SubSeq(bytes, 1, Len(bytes) - 1))
             \o Consume(LexAfter(SubSeq(bytes, 1, Len(bytes) - 1)),
                        bytes[Len(bytes)]).toks

\* C40: of the tokens returned by all the Consume calls so far, with or
\* without an error, each one lies wholly before the next: offsets strictly
\* increase, the ranges [offset, offset + length) do not overlap, and no
\* token comes twice.  They are the tokens returned before the last call
\* followed by those of the last call, and each is a token of lex.Tokens.
C40_ReturnedInOrder ==
    LET all == ReturnedBy(consumed)
    IN  /\ \A i \in 1..Len(all) : \A j \in (i + 1)..Len(all) :
              /\ all[i].Offset < all[j].Offset
              /\ all[i].Offset + all[i].Length <= all[j].Offset
              /\ all[i] # all[j]
        /\ \A i \in 1..Len(all) : \E k \in 1..Len(lex.Tokens) : lex.Tokens[k] = all[i]
        /\ lastByte # -1 => all = ReturnedBy(prevLex.Source) \o newTokens

\* 1.a and a blank: the Number, the Dot and the Identifier, each returned once
C40_Witness ==
    /\ consumed = <<ByteOne, ByteDot, ByteLowerA, ByteSpace>>
    /\ ReturnedBy(consumed) =
          <<Token(0, 1, "TokNumber"), Token(1, 1, "TokDot"),
            Token(2, 1, "TokIdentifier")>>
    /\ newTokens = <<Token(2, 1, "TokIdentifier")>>

(***************************************************************************)
(* Further claims about the parser and the host loop, checked under Spec.  *)
(***************************************************************************)
\* the next ParseNext of the loop gets a closing paren as its first token
ParenComesFirst ==
    /\ pc = "parse"
    /\ NextToken(parser, input).err = ErrNil
    /\ NextToken(parser, input).token.Type = "TokRparen"

\* the next ParseNext of the loop reads "(h . )"
ParenComesAsTail == given.form = "notail" /\ pc = "parse" /\ output = <<>>

\* the closing paren of "(h . )"
NoTailParen == Token(Len(NoTail(given.expr)) - 1, 1, "TokRparen")

\* C24 as stated: a closing paren met where an expression is expected, first
\* in a top-level ParseNext or as the tail after a dot, makes the parser abort.
C24_StrayParenAborts ==
    (ParenComesFirst \/ ParenComesAsTail) =>
        ParseNext(parser, input).err.kind = "panic"

\* C24: a closing paren met as the first token of a top-level ParseNext makes
\* that ParseNext return Null and the recoverable error "Unexpected token" for
\* that paren; in "(h . )" the paren met as the tail gives the same error at
\* the paren, the loop prints it as a parsing error and goes on to the end of
\* input.  The parser aborts only when a caller hands a closing paren to
\* ParseNextWithToken as parentToken.
C24_StrayParenRecoverable ==
    /\ ParenComesFirst =>
          LET t == NextToken(parser, input)
          IN  ParseNext(parser, input) =
                  ParsResult(t.self, t.input, ValueNull,
                             NewUnexpectedTokenError(t.self, t.token))
    /\ ParenComesAsTail =>
          /\ ParseNext(parser, input).err =
                 NewError(NoTail(given.expr), NoTailParen.Offset,
                          ErrorText("Unexpected token", -1, "", NoTailParen, <<>>))
          /\ ParseNext(parser, input).input = <<ByteLF>>
    /\ given.form = "notail" =>
          /\ pc \in {"parse", "done"}
          /\ Len(output) <= 1
          /\ pc = "done" => Len(output) = 1
          /\ Len(output) = 1 =>
                output[1] =
                    Line("Parsing error",
                         NewError(NoTail(given.expr), NoTailParen.Offset,
                                  ErrorText("Unexpected token", -1, "",
                                            NoTailParen, <<>>)),
                         ValueNull)
    /\ (given.form = "raw" /\ given.bytes # <<>>
          /\ Head(given.bytes) = ByteRparen /\ Len(output) > 0) =>
          output[1] =
              Line("Parsing error",
                   NewError(<<ByteRparen>>, 0,
                            ErrorText("Unexpected token", -1, "",
                                      Token(0, 1, "TokRparen"), <<>>)),
                   ValueNull)
    /\ pc = "parse" =>
          ParseNextWithToken(parser, input, Token(0, 1, "TokRparen")).err.kind
              = "panic"

\* "(1 . )" was read to the end: one parsing error at the paren, column 6
C24_Witness ==
    /\ given.form = "notail"
    /\ given.expr = Num(1)
    /\ pc = "done"
    /\ Len(output) = 1
    /\ output[1].kind = "Parsing error"
    /\ output[1].err.Text.token = Token(5, 1, "TokRparen")
    /\ output[1].err.OffsetInLine = 6

\* the lexer l after consuming bytes
RECURSIVE LexFrom(_, _)
LexFrom(l, bytes) ==
    IF bytes = <<>> THEN l ELSE LexFrom(Consume(l, Head(bytes)).lex, Tail(bytes))

\* what Consume returns for the n-th byte of the input still to be read
NthConsume(n) ==
    Consume(LexFrom(parser.Lex, SubSeq(input, 1, n - 1)), input[n])

\* NextToken on the current parser and input: with a token queued it returns
\* the head of the queue and keeps the rest, reading nothing and leaving the
\* lexer alone; with the queue empty it consumes bytes up to the first one
\* for which the lexer returns tokens, returns the first of them and queues
\* the others in the lexer's order.
NextTokenIsFifo ==
    LET t == NextToken(parser, input)
    IN  /\ parser.tokens # <<>> =>
              t = TokResult([parser EXCEPT !.tokens = Tail(parser.tokens)], input,
                            Head(parser.tokens), ErrNil)
        /\ (parser.tokens = <<>> /\ t.err = ErrNil) =>
              \E n \in 1..Len(input) :
                  /\ \A k \in 1..(n - 1) :
                         NthConsume(k).toks = <<>> /\ NthConsume(k).err = ErrNil
                  /\ NthConsume(n).toks # <<>>
                  /\ t.token = NthConsume(n).toks[1]
                  /\ t.self.tokens = Tail(NthConsume(n).toks)
                  /\ t.self.Lex = NthConsume(n).lex
                  /\ t.input = SubSeq(input, n + 1, Len(input))

\* a ParseNext of the loop that starts with a token queued takes that token
\* first: a quote becomes the quote symbol of the expression, a dot or a
\* closing paren is the token of the error, found without reading a byte.
QueuedTokenComesFirst ==
    (pc = "parse" /\ parser.tokens # <<>>) =>
        LET q == Head(parser.tokens)
        IN  /\ pc' # "panic"
            /\ q.Type \in {"TokDot", "TokRparen"} =>
                  /\ err' = NewUnexpectedTokenError(parser, q)
                  /\ input' = input
                  /\ parser' = [parser EXCEPT !.tokens = Tail(parser.tokens)]
            /\ (q.Type = "TokQuote" /\ err' = ErrNil) =>
                  expression'.PairLeft.Token = q
            /\ q.Type = "TokLparen" => Len(input') < Len(input) \/ input = <<>>

\* C30: NextToken returns tokens in the order the lexer returned them and
\* reads a byte only when no token is queued, and a token left queued when a
\* ParseNext of the loop returns is the first token of the next ParseNext.
C30_TokensInOrder == [](NextTokenIsFifo) /\ [][QueuedTokenComesFirst]_vars

\* `1.` : the dot returned the Number and itself, the first ParseNext took
\* the Number and left the dot queued, the second one failed on the dot
C30_Witness ==
    /\ given.form = "raw"
    /\ given.bytes = <<ByteOne, ByteDot>>
    /\ Len(output) = 2
    /\ output[1] = Line("Eval result", ErrNil, result)
    /\ result.Type = "ValNumber"
    /\ output[2].kind = "Parsing error"
    /\ output[2].err.Text.token = Token(1, 1, "TokDot")
    /\ parser.tokens = <<>>
    /\ input = <<>>

(***************************************************************************)
(* Claims about the order of reading, parsing and evaluating, under Spec.  *)
(***************************************************************************)
\* C31 as stated: when Eval is about to run, no byte of the next top-level
\* expression has been read, so no token of it is waiting in the queue.
C31_NothingReadAhead == pc = "eval" => parser.tokens = <<>>

\* Eval is entered only from a ParseNext that returned no error, with the
\* value that ParseNext returned, and while Eval runs neither the input nor
\* the parser changes.
EvalAfterParseOnly ==
    /\ pc' = "eval" =>
          /\ pc = "parse"
          /\ ParseNext(parser, input).err = ErrNil
          /\ expression' = ParseNext(parser, input).val
          /\ err' = ErrNil
    /\ pc = "eval" =>
          /\ input' = input
          /\ parser' = parser
          /\ expression' = expression
          /\ pc' \in {"parse", "panic"}

\* when Eval is about to run, what has been read beyond the expression is at
\* most its delimiter: one token may wait in the queue, and then it is a
\* one-byte token ( ) . or ' made of the last byte read.
AtMostOneTokenAhead ==
    pc = "eval" =>
        /\ err = ErrNil
        /\ Len(parser.tokens) <= 1
        /\ parser.tokens # <<>> =>
              /\ Head(parser.tokens).Type \in {"TokLparen", "TokRparen", "TokDot", "TokQuote"}
              /\ Head(parser.tokens).Length = 1
              /\ Head(parser.tokens).Offset = Len(parser.Lex.Source) - 1
              /\ expression.Type # "ValString"

\* C31: Eval runs only on the value of a ParseNext that returned no error, and
\* no byte is read and the parser is not touched while it runs.  Of the next
\* expression at most one byte has been read by then: the ( ) . or ' that
\* ended the Number or Identifier the expression ends with, waiting in the
\* queue as a token.
C31_ParseThenEval == [](AtMostOneTokenAhead) /\ [][EvalAfterParseOnly]_vars

\* `1(` : the 1 is about to be evaluated and the paren is already queued
C31_Witness ==
    /\ given.bytes = <<ByteOne, ByteLparen>>
    /\ pc = "eval"
    /\ expression.Type = "ValNumber"
    /\ parser.tokens = <<Token(1, 1, "TokLparen")>>
    /\ input = <<>>

(***************************************************************************)
(* Claims about numbers, checked under Spec.                               *)
(***************************************************************************)
\* the digits of a "toobig" input and the Number token they make
TooBigToken ==
    Token(Len(given.bytes) - 1 - Len(given.expr.StringData),
          Len(given.expr.StringData), "TokNumber")

\* C32: a Number token whose digits exceed math.MaxInt64 makes the ParseNext
\* that meets it, at top level or inside a list, return "Can't parse number"
\* for that token at the token's offset; the loop prints it as a parsing
\* error, never aborts, evaluates nothing and no Number value is made of the
\* token.  Atoi
\* fails for each such digit string while it accepts math.MaxInt64 itself.
C32_NumberOutOfRange ==
    /\ \A d \in TooBigDigits : ~Atoi(d).ok /\ ~AtoiInRange(d)
    /\ AtoiInRange(MaxIntDigits)
    /\ given.form = "toobig" =>
          /\ pc \in {"parse", "done"}
          /\ \A v \in Nodes(expression) :
                 v.Type = "ValNumber" => v.Token # TooBigToken /\ v.Number = GoInt(1)
          /\ result = ValueNull
          /\ Len(output) <= 1
          /\ pc = "done" => Len(output) = 1
          /\ Len(output) = 1 =>
                output[1] =
                    Line("Parsing error",
                         NewError(given.bytes, TooBigToken.Offset,
                                  ErrorText("Can't parse number", -1, "",
                                            TooBigToken, <<>>)),
                         ValueNull)
          /\ (pc = "parse" /\ output = <<>>) =>
                ParseNext(parser, input).err.kind = "Error"

\* (1 9223372036854775808) was read to the end: one parsing error at column 4
C32_Witness ==
    /\ given.form = "toobig"
    /\ given.bytes[1] = ByteLparen
    /\ Len(given.expr.StringData) = 19
    /\ pc = "done"
    /\ output[1].kind = "Parsing error"
    /\ output[1].err.Text.msg = "Can't parse number"
    /\ output[1].err.Text.token = Token(3, 19, "TokNumber")
    /\ output[1].err.OffsetInLine = 4

(***************************************************************************)
(* Claims about what the parser can and cannot do, checked under Spec.     *)
(***************************************************************************)
\* the message of ParseNextWithToken's panic
DelegatedUnexpected == "Delegated unexpected"

\* C33: whatever was read so far and whatever is still to be read, the next
\* ParseNext of the loop does not end in the panic of ParseNextWithToken, no
\* ParseNext before it did, and the loop never aborts: a closing paren read in
\* a list closes it or is reported as "Unexpected token", it is never passed
\* on as parentToken.
C33_NeverDelegated ==
    /\ pc # "panic"
    /\ err.kind # "panic"
    /\ err.Text.msg # DelegatedUnexpected
    /\ \A i \in 1..Len(output) : output[i].err.Text.msg # DelegatedUnexpected
    /\ pc = "parse" =>
          /\ ParseNext(parser, input).err.kind # "panic"
          /\ ParseNext(parser, input).err.Text.msg # DelegatedUnexpected
    /\ ParseRemainingList(parser, input).err.kind # "panic"

\* `(1)` : the paren came out of the lexer together with the 1, was read by
\* ParseRemainingList and closed the list
C33_Witness ==
    /\ given.form = "raw"
    /\ given.bytes = <<ByteLparen, ByteOne, ByteRparen>>
    /\ pc = "eval"
    /\ expression = NewNode(expression.PairLeft, ValueNull)
    /\ expression.PairLeft.Token = Token(1, 1, "TokNumber")
    /\ parser.Lex.Tokens[3] = Token(2, 1, "TokRparen")
    /\ parser.tokens = <<>>

\* every Pair of v has a left and a right child
HasNoNilChild(v) ==
    \A n \in Nodes(v) :
        n.Type = "ValPair" => n.PairLeft # Nil /\ n.PairRight # Nil

\* C34: a value ParseNext returns without error has no Pair with a nil child,
\* whatever the parser has read before, and Eval and EvalRight of the value
\* the loop hands to Eval do not end in a nil dereference, under TestEval's
\* table.
C34_NoNilChild ==
    /\ (pc = "parse" /\ ParseNext(parser, input).err = ErrNil) =>
          HasNoNilChild(ParseNext(parser, input).val)
    /\ pc = "eval" =>
          /\ HasNoNilChild(expression)
          /\ Eval(CurrentInterp, expression).err.kind # "panic"
          /\ expression.Type = "ValPair" =>
                EvalRight(CurrentInterp, expression.PairRight).err.kind # "panic"
    /\ pc # "panic"

\* ((1 . 2) 40) is about to be evaluated: three Pairs, each with both children
C34_Witness ==
    /\ given.form = "plain"
    /\ pc = "eval"
    /\ expression.Type = "ValPair"
    /\ expression.PairLeft.Type = "ValPair"
    /\ expression.PairLeft.PairRight.Type = "ValNumber"
    /\ expression.PairRight.Type = "ValPair"
    /\ expression.PairRight.PairRight = ValueNull
    /\ Cardinality({n \in Nodes(expression) : n.Type = "ValPair"}) = 3

(***************************************************************************)
(* Claims about lexer errors and the end of input in the parser, checked   *)
(* under Spec.                                                             *)
(***************************************************************************)
\* the bytes that begin a Number, an Identifier and a String
AtomStarts == {ByteOne, ByteLowerA, ByteDQuote}

\* the kind of token a byte of AtomStarts begins
TokenFromStart(c) ==
    CASE c = ByteOne -> "TokNumber"
      [] c = ByteLowerA -> "TokIdentifier"
      [] c = ByteDQuote -> "TokString"

\* the input is an atom begun and then a byte the lexer rejects
RejectedInAtom ==
    /\ given.form = "raw"
    /\ Len(given.bytes) >= 2
    /\ given.bytes[1] \in AtomStarts
    /\ given.bytes[2] = ByteCtl

\* C36: when NextToken gets an error from Consume it returns that error and
\* no token, and the queue is as it was: what Consume returned with the error
\* is dropped.  For an input that begins a Number, an Identifier or a String
\* and goes on with a rejected byte, the first ParseNext returns the
\* "unexpected byte" error at that byte with the queue empty, although the
\* lexer did return the token; no value made of that token is ever parsed,
\* evaluated or printed.
C36_TokenLostOnLexError ==
    /\ LET t == NextToken(parser, input)
       IN  (parser.tokens = <<>> /\ t.err.kind = "Error") =>
              /\ t.token = TokenInvalid
              /\ t.self.tokens = <<>>
              /\ \E n \in 1..Len(input) :
                    /\ \A k \in 1..(n - 1) :
                          NthConsume(k).toks = <<>> /\ NthConsume(k).err = ErrNil
                    /\ NthConsume(n).err = t.err
                    /\ t.self.Lex = NthConsume(n).lex
                    /\ t.input = SubSeq(input, n + 1, Len(input))
    /\ RejectedInAtom =>
          /\ (pc = "parse" /\ output = <<>>) =>
                /\ Consume(Consume(NewLex, given.bytes[1]).lex, ByteCtl).toks
                      = <<Token(0, 1, TokenFromStart(given.bytes[1]))>>
                /\ ParseNext(parser, input).err =
                      NewUnexpectedByteError(Consume(NewLex, given.bytes[1]).lex, ByteCtl)
                /\ ParseNext(parser, input).self.tokens = <<>>
          /\ Len(output) > 0 =>
                output[1] =
                    Line("Parsing error",
                         NewUnexpectedByteError(Consume(NewLex, given.bytes[1]).lex,
                                                ByteCtl),
                         ValueNull)
          /\ \A n \in Nodes(expression) : n.Token.Length > 0 => n.Token.Offset >= 2
          /\ \A i \in 1..Len(parser.tokens) : parser.tokens[i].Offset >= 2

\* `1` and a control byte, read to the end: the lexer holds the Number, the
\* parser never got it
C36_Witness ==
    /\ given.form = "raw"
    /\ given.bytes = <<ByteOne, ByteCtl>>
    /\ pc = "done"
    /\ Len(output) = 1
    /\ output[1].kind = "Parsing error"
    /\ output[1].err.Text.msg = "unexpected byte"
    /\ parser.Lex.Tokens = <<Token(0, 1, "TokNumber")>>
    /\ parser.tokens = <<>>
    /\ expression = ValueNull

\* the lexer states in which a token is being accumulated
InProgressStates == {"LexNumber", "LexIdentifier", "LexString", "LexStringEscaped"}

\* the values the loop has parsed or printed so far
ValuesSeen ==
    Nodes(expression) \cup Nodes(result)
        \cup UNION {Nodes(output[i].value) : i \in 1..Len(output)}

\* the whole input is one atom with nothing after it
LoneAtom ==
    /\ given.form = "raw"
    /\ given.bytes # <<>>
    /\ LexAfter(given.bytes).state \in InProgressStates
    /\ Len(LexAfter(given.bytes).Tokens) = 1
    /\ LexAfter(given.bytes).Tokens[1].Offset = 0

\* C37: with no byte left and no token queued ParseNext returns io.EOF and
\* Null, whatever token the lexer has in progress, and the loop ends there:
\* it is done only after such a ParseNext.  The token in progress when the
\* loop is done is in no value parsed, evaluated or printed; for an input that
\* is one Number, Identifier or String without a byte after it nothing is
\* printed at all.
C37_AtomLostAtEnd ==
    /\ (pc = "parse" /\ input = <<>> /\ parser.tokens = <<>>) =>
          /\ ParseNext(parser, input) = ParsResult(parser, input, ValueNull, ErrEOF)
          /\ AfterParse(ParseNext(parser, input).err) = "done"
    /\ pc = "done" =>
          /\ err = ErrEOF
          /\ input = <<>>
          /\ parser.tokens = <<>>
          /\ parser.Lex.state \in InProgressStates =>
                \A n \in ValuesSeen : n.Token # LastToken(parser.Lex)
    /\ LoneAtom =>
          /\ output = <<>>
          /\ expression = ValueNull
          /\ pc \in {"parse", "done"}

\* `1a` was read to the end: the Identifier is still in progress in the
\* lexer, the loop is over and has printed nothing
C37_Witness ==
    /\ given.form = "raw"
    /\ given.bytes = <<ByteOne, ByteLowerA>>
    /\ pc = "done"
    /\ err = ErrEOF
    /\ parser.Lex.state = "LexNumber"
    /\ LastToken(parser.Lex) = Token(0, 2, "TokIdentifier")
    /\ output = <<>>

(***************************************************************************)
(* Termination of the host loop, checked under FairSpec.                   *)
(***************************************************************************)
\* what is left to be read: the bytes of the input and the tokens queued
LeftToRead(self, in) == Len(in) + Len(self.tokens)

\* NextToken on the current parser and input returns a token and leaves less
\* to be read, or returns an error of the lexer after reading at least one
\* byte, or returns io.EOF with nothing queued and no byte left.
NextTokenAdvances ==
    LET t == NextToken(parser, input)
    IN  /\ t.err = ErrNil =>
              LeftToRead(t.self, t.input) < LeftToRead(parser, input)
        /\ t.err.kind = "Error" => Len(t.input) < Len(input)
        /\ t.err = ErrEOF <=>
              (\A k \in 1..Len(input) :
                   NthConsume(k).toks = <<>> /\ NthConsume(k).err = ErrNil)
                /\ parser.tokens = <<>>
        /\ t.err = ErrEOF => t.input = <<>> /\ t.self.tokens = <<>>
        /\ (input = <<>> /\ parser.tokens = <<>>) =>
              ParseNext(parser, input).err = ErrEOF

\* the ParseNext the loop is about to do ends the loop or leaves less to be
\* read, so it changes the state: HostParse can be done whenever pc = "parse"
ParseNextAdvances ==
    pc = "parse" =>
        LET r == ParseNext(parser, input)
        IN  \/ AfterParse(r.err) = "done" /\ r.err = ErrEOF
            \/ LeftToRead(r.self, r.input) < LeftToRead(parser, input)

\* a ParseNext of the loop leaves less to be read or ends the loop, and an
\* Eval reads nothing and goes back to ParseNext
LoopAdvances ==
    /\ pc = "parse" =>
          \/ pc' = "done" /\ err' = ErrEOF /\ input' = <<>> /\ parser'.tokens = <<>>
          \/ LeftToRead(parser', input') < LeftToRead(parser, input)
    /\ pc = "eval" =>
          pc' = "parse" /\ LeftToRead(parser', input') = LeftToRead(parser, input)

\* C39: for every input of the model the loop ends: it reaches the break on
\* io.EOF.  Every NextToken takes a token from the queue or bytes from the
\* input, or returns io.EOF when neither is left; every ParseNext of the loop
\* leaves less to be read or returns io.EOF.
C39_LoopTerminates ==
    /\ <>(pc = "done")
    /\ [](NextTokenAdvances)
    /\ [](ParseNextAdvances)
    /\ [][LoopAdvances]_vars

\* the loop has ended after three ParseNext that did not return io.EOF
C39_Witness ==
    /\ pc = "done"
    /\ err = ErrEOF
    /\ input = <<>>
    /\ Len(output) = 3
    /\ given.form = "raw"

====
